---- MODULE Spec2Model ----
(***************************************************************************)
(* Order / payment / download lifecycle of the PDF-bundle backend.         *)
(*                                                                         *)
(* Three server variants live in the repository and are modelled side by   *)
(* side; `variant` is fixed at start-up:                                   *)
(*   "razorpay"  src/server.js 1-1035     signature check, JSON file store *)
(*   "legacy"    src/server.js 1037-1558  signature check, single product  *)
(*   "cashfree"  src/unnamed/part_000     status poll, expiry sweep        *)
(*                                                                         *)
(* Node runs every handler on one thread: a handler runs without           *)
(* interruption up to an `await` on real I/O, so every action below is one *)
(* such run-to-completion segment.                                         *)
(***************************************************************************)
EXTENDS Integers, Sequences, FiniteSets, Bags, TLC

\* ---------------------------------------------------------------- bounds
MaxOrders == 2      \* orders the gateway hands out
MaxReqs == 2        \* verify-payment requests suspended at an await
MaxTokens == 2      \* download tokens issued
MaxTicks == 2       \* clock steps
MaxRestarts == 1    \* process restarts
MaxWork == 3        \* orders + tokens + clock steps + restarts, in total
MaxLedger == 11     \* records of a ledger the statistics are read from

\* ------------------------------------------------------ program constants
ExpiryMinutes == 30          \* 30 * 60 * 1000 ms
SweepIntervalMinutes == 30   \* 30 * 60 * 1000 ms
PDF_PRICE == 99              \* process.env.PDF_PRICE of the legacy variant
PaiseFactor == 100
RecentLimit == 10            \* .slice(0, 10)
\* the clock advances by one timer period at a time
TickMinutes == SweepIntervalMinutes

Variants == {"razorpay", "legacy", "cashfree"}
SignatureVariants == {"razorpay", "legacy"}

Luxury == "Luxury_Reel_Bundle.pdf"
Premium == "Premium_Digital_Bundle_2025.pdf"
AllPdfs == {Luxury, Premium}
DefaultPdfs == <<Luxury, Premium>>

\* JavaScript `undefined` (also: a key absent from an object)
Undefined == <<"undefined">>
\* a Date object holding instant n, and the ISO string JSON.stringify makes of it
Date(n) == <<"Date", n>>
IsoString(n) == <<"String", n>>
\* new Date(x) / date arithmetic: the instant behind a Date or an ISO string
TimeOf(d) == d[2]

packageConfigs ==
  [p \in {"Starter Viral Pack", "Pro Viral Pack", "Special Combo Deal"} |->
     CASE p = "Starter Viral Pack" -> [price |-> 49, pdfs |-> <<Luxury>>]
       [] p = "Pro Viral Pack"     -> [price |-> 49, pdfs |-> <<Premium>>]
       [] p = "Special Combo Deal" -> [price |-> 89, pdfs |-> <<Luxury, Premium>>]]

PackageNames == DOMAIN packageConfigs
\* packageConfigs is an object literal: a lookup by a name it does not own
\* falls through to Object.prototype, whose members are truthy
ObjectPrototype == {"constructor", "toString", "hasOwnProperty", "valueOf"}
\* !!packageConfigs[packageName]
HasPackage(packageName) == packageName \in PackageNames \cup ObjectPrototype

\* ------------------------------------------------------------ JS Map
\* A Map is kept as the sequence of its [key, value] entries in insertion order.
MapHas(m, k) == \E i \in 1..Len(m) : m[i][1] = k
MapIndex(m, k) == CHOOSE i \in 1..Len(m) : m[i][1] = k
MapGet(m, k) == m[MapIndex(m, k)][2]
MapSet(m, k, v) ==
  IF MapHas(m, k) THEN [m EXCEPT ![MapIndex(m, k)] = <<k, v>>]
  ELSE Append(m, <<k, v>>)
MapDelete(m, k) == SelectSeq(m, LAMBDA e : e[1] # k)
MapKeys(m) == {m[i][1] : i \in 1..Len(m)}
MapValues(m) == [i \in 1..Len(m) |-> m[i][2]]

VARIABLES
  variant,             \* which server file is running
  assets,              \* PDF files present in ./assets
  now,                 \* wall clock, minutes
  orderStore,          \* Map orderId -> pending order
  completedPayments,   \* Map downloadToken -> payment record
  paymentsFile,        \* payments_data.json (razorpay variant)
  reqs,                \* verify-payment requests and where each one stands
  nextOrder,           \* next order id the gateway / id generator hands out
  nextToken,           \* next value of crypto.randomBytes(32)
  mailAttempts,        \* token -> number of sendPDFEmail calls
  isProcessingPayment, \* flag of the cashfree variant
  nextSweep,           \* next firing of the setInterval sweep (cashfree)
  epoch,               \* process incarnation
  observe,             \* the routes whose responses are recorded in resp
  workLimit,           \* how much activity this run explores (see Work)
  resp                 \* the last response sent on an observed route

vars == <<variant, assets, now, orderStore, completedPayments, paymentsFile,
          reqs, nextOrder, nextToken, mailAttempts,
          isProcessingPayment, nextSweep, epoch, observe, workLimit, resp>>

OrderIds == 1..MaxOrders
TokenIds == 1..MaxTokens

\* ------------------------------------------------------------ responses
NoResp == [route |-> "none", status |-> 0, kind |-> "none", keys |-> {},
           success |-> FALSE, message |-> "", token |-> 0, items |-> <<>>,
           about |-> 0, mail |-> "none", evidence |-> "none", gateway |-> "none"]

JsonFail(route, status, message) ==
  [route |-> route, status |-> status, kind |-> "json",
   keys |-> {"success", "message"}, success |-> FALSE, message |-> message,
   token |-> 0, items |-> <<>>, about |-> 0, mail |-> "none", evidence |-> "none", gateway |-> "none"]

TextResp(route, status, message) ==
  [route |-> route, status |-> status, kind |-> "text", keys |-> {},
   success |-> FALSE, message |-> message, token |-> 0, items |-> <<>>,
   about |-> 0, mail |-> "none", evidence |-> "none", gateway |-> "none"]

\* the response, tagged with the order id or token its request named
For(response, id) == [response EXCEPT !.about = id]
\* ... and with how the purchase email of that request went
Mailed(response, outcome) == [response EXCEPT !.mail = outcome]
\* ... and with what the verification of that request was given: how the
\* signature it carried compares, or what the gateway answered
Evidenced(response, evidence) == [response EXCEPT !.evidence = evidence]

\* faulty variant: the direct links count the items from 0
VerifySuccess_zeroBased(tok, pdfs) ==
  [route |-> "verify-payment", status |-> 200, kind |-> "json",
   keys |-> {"success", "message", "downloadUrl", "downloadToken", "customerData"}
            \cup (IF variant = "legacy" THEN {} ELSE {"directDownloadUrls"}),
   success |-> TRUE, message |-> "Payment verified successfully",
   token |-> tok,
   items |-> IF variant = "legacy" THEN <<>>
             ELSE [i \in 1..Len(pdfs) |-> [index |-> i - 1, pdf |-> pdfs[i]]],
   about |-> 0, mail |-> "none", evidence |-> "none", gateway |-> "none"]

VerifySuccess(tok, pdfs) ==
  [route |-> "verify-payment", status |-> 200, kind |-> "json",
   keys |-> {"success", "message", "downloadUrl", "downloadToken", "customerData"}
            \cup (IF variant = "legacy" THEN {} ELSE {"directDownloadUrls"}),
   success |-> TRUE, message |-> "Payment verified successfully",
   token |-> tok,
   items |-> IF variant = "legacy" THEN <<>>
             ELSE [i \in 1..Len(pdfs) |-> [index |-> i, pdf |-> pdfs[i]]],
   about |-> 0, mail |-> "none", evidence |-> "none", gateway |-> "none"]

Routes == {"create-order", "verify-payment", "download-pdf", "download-file",
           "admin-stats", "payment-count", "contact"}

\* resp is the response sent by the step just taken, provided its route is
\* an observed one; NoResp after any other step
Emit(response) ==
  resp' = IF response.route \in observe THEN response ELSE NoResp
Silent == resp' = NoResp

\* orders created, tokens issued, clock steps taken and restarts made so far
Work == (nextOrder - 1) + (nextToken - 1) + (now \div TickMinutes) + epoch

\* ------------------------------------------------------------ requests
\* reqs is the bag of verify-payment requests suspended at an await, each
\* with the locals it resumes with
Suspended(pc, o, orderData, tok, evidence) ==
  [pc |-> pc, orderId |-> o, orderData |-> orderData, token |-> tok,
   evidence |-> evidence]
Suspend(req) == reqs' = reqs (+) SetToBag({req})
Resume(req) == reqs' = reqs (-) SetToBag({req})
InFlight == BagToSet(reqs)
CanSuspend == BagCardinality(reqs) < MaxReqs

\* ------------------------------------------------------------ persistence
\* JSON.stringify of a record: Date fields become ISO strings, keys whose
\* value is undefined are dropped (they read back as undefined).
JsonDate(d) == IF d[1] = "Date" THEN IsoString(d[2]) ELSE d
StringifyRecord(v) ==
  [v EXCEPT !.createdAt = JsonDate(@), !.completedAt = JsonDate(@),
            !.downloadedAt = JsonDate(@)]

\* faulty variant: the item lists are left out of the file
savePaymentData_withoutItems(cp, t) ==
  [payments |-> [i \in 1..Len(cp) |->
                   <<cp[i][1], [StringifyRecord(cp[i][2]) EXCEPT !.pdfs = Undefined]>>],
   lastUpdated |-> IsoString(t)]

savePaymentData(cp, t) ==
  [payments |-> [i \in 1..Len(cp) |-> <<cp[i][1], StringifyRecord(cp[i][2])>>],
   lastUpdated |-> IsoString(t)]

NoFile == [payments |-> <<>>, lastUpdated |-> Undefined]

RECURSIVE LoadEntries(_, _)
LoadEntries(entries, m) ==
  IF entries = <<>> THEN m
  ELSE LoadEntries(Tail(entries), MapSet(m, Head(entries)[1], Head(entries)[2]))

\* faulty variant: the reload forgets which records were downloaded
loadPaymentData_resetDownloaded(file) ==
  LET m == LoadEntries(file.payments, <<>>)
  IN [i \in 1..Len(m) |-> <<m[i][1], [m[i][2] EXCEPT !.downloaded = FALSE]>>]

loadPaymentData(file) == LoadEntries(file.payments, <<>>)

Saved(cp, t) == IF variant = "razorpay" THEN savePaymentData(cp, t) ELSE paymentsFile

\* ------------------------------------------------------------ Init
Observed == {"verify-payment"}
AssetStates == {AllPdfs, {Luxury}}
\* the process right after start-up
Boot ==
  /\ variant \in Variants
  /\ assets \in AssetStates
  /\ now = 0
  /\ orderStore = <<>>
  /\ completedPayments = <<>>
  /\ paymentsFile = NoFile
  /\ reqs = EmptyBag
  /\ nextOrder = 1
  /\ nextToken = 1
  /\ mailAttempts = [t \in TokenIds |-> 0]
  /\ isProcessingPayment = FALSE
  /\ nextSweep = SweepIntervalMinutes
  /\ epoch = 0
  /\ resp = NoResp

Init ==
  /\ Boot
  /\ observe = Observed
  /\ workLimit = MaxWork

\* ------------------------------------------------------------ create-order
\* request bodies: complete ones for every package, one with each field
\* missing or empty, and one naming a package that is not in the catalog
Body(fullName, email, mobile, packageName) ==
  [fullName |-> fullName, email |-> email, mobile |-> mobile,
   packageName |-> packageName]
Bodies ==
  {Body("A", "a@x.com", "111", p) : p \in PackageNames}
    \cup {Body("", "a@x.com", "111", "Starter Viral Pack"),
          Body("A", "", "111", "Starter Viral Pack"),
          Body("A", "a@x.com", "", "Starter Viral Pack"),
          Body("A", "a@x.com", "111", ""),
          Body("A", "a@x.com", "111", "Unknown Pack"),
          Body("A", "a@x.com", "111", "constructor")}
Currency == "INR"

\* faulty variant: the razorpay amount is left in rupees
OrderAmount_rupees(packageName) ==
  IF variant = "legacy" THEN PDF_PRICE * PaiseFactor
  ELSE packageConfigs[packageName].price

\* amount charged for an order (razorpay charges in paise)
OrderAmount(packageName) ==
  CASE variant = "razorpay" -> packageConfigs[packageName].price * PaiseFactor
    [] variant = "legacy"   -> PDF_PRICE * PaiseFactor
    [] variant = "cashfree" -> packageConfigs[packageName].price

NewOrder(fullName, email, mobile, packageName, t) ==
  [fullName |-> fullName, email |-> email, mobile |-> mobile,
   packageName |-> IF variant = "legacy" THEN Undefined ELSE packageName,
   pdfs |-> IF variant = "legacy" THEN Undefined
            ELSE packageConfigs[packageName].pdfs,
   amount |-> OrderAmount(packageName),
   currency |-> Currency,
   createdAt |-> Date(t),
   paymentSessionId |-> IF variant = "cashfree" THEN "session" ELSE Undefined]

CreateOrderOk(orderId, amount) ==
  [route |-> "create-order", status |-> 200, kind |-> "json",
   keys |-> {"success", "orderId", "amount", "currency"}
            \cup (IF variant = "cashfree" THEN {"paymentSessionId", "environment"}
                  ELSE {"key"}),
   success |-> TRUE, message |-> "", token |-> orderId, items |-> <<amount>>,
   about |-> orderId, mail |-> "none", evidence |-> "none", gateway |-> "none"]

\* what the request body is, whatever the handler makes of it
BodyEvidence(fullName, email, mobile, packageName) ==
  IF fullName = "" \/ email = "" \/ mobile = "" THEN "fields-missing"
  ELSE IF packageName = "" THEN "package-missing"
  ELSE IF packageName \notin PackageNames THEN "package-unknown"
  ELSE "complete"

\* ... tagged with whether the handler called the gateway, and what came of it
Called(response, outcome) == [response EXCEPT !.gateway = outcome]

\* The gateway turns down an order whose amount is not a number
\* (undefined * 100, or an absent order_amount).
GatewayAccepts(packageName, gatewayOk) ==
  gatewayOk /\ (variant = "legacy" \/ packageName \in PackageNames)

\* faulty variant: the order is stored whatever the gateway answered
createOutcome_ignoringGateway(fullName, email, mobile, packageName, accepted) ==
  IF fullName = "" \/ email = "" \/ mobile = ""
     \/ (variant # "legacy" /\ packageName = "")
  THEN "fields_required"
  ELSE IF variant # "legacy" /\ ~HasPackage(packageName) THEN "invalid_package"
  ELSE "created"

\* which way the handler leaves; `accepted` is the gateway's answer, looked
\* at only once the two validations have passed
createOutcome(fullName, email, mobile, packageName, accepted) ==
  IF fullName = "" \/ email = "" \/ mobile = ""
     \/ (variant # "legacy" /\ packageName = "")
  THEN "fields_required"
  ELSE IF variant # "legacy" /\ ~HasPackage(packageName) THEN "invalid_package"
  ELSE IF ~accepted THEN "gateway_failed"
  ELSE "created"

\* The handler awaits the gateway once; before the await it touches no
\* shared state and after it only inserts the order, so the two halves are
\* taken as one step with the gateway's outcome as an input.
CreateOrder(fullName, email, mobile, packageName, gatewayOk) ==
  /\ UNCHANGED <<observe, workLimit, variant, assets, now, completedPayments, paymentsFile, reqs,
                 nextToken, mailAttempts, isProcessingPayment,
                 nextSweep, epoch>>
  /\ LET accepted == GatewayAccepts(packageName, gatewayOk)
         outcome == createOutcome(fullName, email, mobile, packageName, accepted)
         called == IF outcome \in {"fields_required", "invalid_package"}
                   THEN "not-called"
                   ELSE IF accepted THEN "ok" ELSE "failed"
         Reply(response) ==
           Emit(Called(Evidenced(response,
                                 BodyEvidence(fullName, email, mobile, packageName)),
                       called))
     IN
     IF outcome = "fields_required"
     THEN /\ Reply(JsonFail("create-order", 400, "All fields are required"))
          /\ UNCHANGED <<orderStore, nextOrder>>
     ELSE IF outcome = "invalid_package"
     THEN /\ Reply(JsonFail("create-order", 400, "Invalid package selected"))
          /\ UNCHANGED <<orderStore, nextOrder>>
     ELSE IF outcome = "gateway_failed"
     THEN /\ Reply(JsonFail("create-order", 500, "Failed to create order"))
          /\ UNCHANGED <<orderStore, nextOrder>>
     ELSE /\ nextOrder <= MaxOrders
          /\ Work < workLimit
          /\ orderStore' = MapSet(orderStore, nextOrder,
                                  NewOrder(fullName, email, mobile, packageName, now))
          /\ nextOrder' = nextOrder + 1
          /\ Reply(CreateOrderOk(nextOrder, OrderAmount(packageName)))

\* ------------------------------------------------------------ email
\* sendPDFEmail throws before any I/O when an attachment is missing on disk.
EmailFilesPresent(orderData) ==
  IF variant = "legacy" THEN Luxury \in assets /\ Premium \in assets
  ELSE LET userPdfs == IF orderData.pdfs = Undefined THEN DefaultPdfs
                       ELSE orderData.pdfs
       IN \A i \in 1..Len(userPdfs) : userPdfs[i] \in assets

\* ------------------------------------------------------------ verify-payment
KeySecret == "RAZORPAY_KEY_SECRET"
PaymentIds == {"pay_1"}

\* HMAC-SHA256 as a collision-free keyed digest
Hmac(secret, body) == <<"hmac-sha256", secret, body>>
SignedBody(orderId, paymentId) == <<orderId, "|", paymentId>>

\* signatures a client may send for (o, p): the right one, one for another
\* payment id, one made with another key, and none
Signatures(o, p) ==
  {Hmac(KeySecret, SignedBody(o, p))}
    \cup {Hmac(KeySecret, SignedBody(o, "pay_0"))}
    \cup {Hmac("attacker-key", SignedBody(o, p)), <<>>}

\* faulty variant: the record lists the whole bundle, whatever was ordered
PaymentRecord_wholeBundle(orderData, paymentId, orderId, t) ==
  [fullName |-> orderData.fullName, email |-> orderData.email,
   mobile |-> orderData.mobile, packageName |-> orderData.packageName,
   pdfs |-> DefaultPdfs, amount |-> orderData.amount,
   currency |-> orderData.currency, createdAt |-> orderData.createdAt,
   paymentSessionId |-> orderData.paymentSessionId,
   paymentId |-> paymentId, orderId |-> orderId,
   completedAt |-> Date(t), downloaded |-> FALSE, downloadedAt |-> Undefined]

PaymentRecord(orderData, paymentId, orderId, t) ==
  [fullName |-> orderData.fullName, email |-> orderData.email,
   mobile |-> orderData.mobile, packageName |-> orderData.packageName,
   pdfs |-> orderData.pdfs, amount |-> orderData.amount,
   currency |-> orderData.currency, createdAt |-> orderData.createdAt,
   paymentSessionId |-> orderData.paymentSessionId,
   paymentId |-> paymentId, orderId |-> orderId,
   completedAt |-> Date(t), downloaded |-> FALSE, downloadedAt |-> Undefined]

ResponsePdfs(orderData) == orderData.pdfs

\* crypto.randomBytes(32).toString("hex"): 256 random bits, taken as a value
\* that was never drawn before
randomToken == nextToken

\* the response once the try/catch around `await sendPDFEmail` is left:
\* a failed email is logged and swallowed
\* faulty variant: a failed email fails the request
verifiedResponse_mailRequired(tok, o, orderData, mailOutcome) ==
  IF mailOutcome = "delivered"
  THEN Mailed(For(VerifySuccess(tok, ResponsePdfs(orderData)), o), mailOutcome)
  ELSE Mailed(For(JsonFail("verify-payment", 500, "Payment verification failed"), o),
              mailOutcome)

verifiedResponse(tok, o, orderData, mailOutcome) ==
  Mailed(For(VerifySuccess(tok, ResponsePdfs(orderData)), o), mailOutcome)

SignatureEvidence(o, paymentId, signature) ==
  IF signature = Hmac(KeySecret, SignedBody(o, paymentId))
  THEN "signature-valid" ELSE "signature-invalid"

\* faulty variant: an unknown order is reported as a bad signature
rzpOutcome_unknownAsInvalid(o, paymentId, signature) ==
  IF Hmac(KeySecret, SignedBody(o, paymentId)) = signature /\ MapHas(orderStore, o)
  THEN "verified" ELSE "invalid_signature"

\* faulty variant: the digest is not compared, only its presence is
rzpOutcome_anySignature(o, paymentId, signature) ==
  IF signature # <<>>
  THEN IF MapHas(orderStore, o) THEN "verified" ELSE "not_found"
  ELSE "invalid_signature"

\* faulty variant: only the key of the digest is checked, not what was signed
rzpOutcome_keyOnly(o, paymentId, signature) ==
  IF signature # <<>> /\ signature[2] = KeySecret
  THEN IF MapHas(orderStore, o) THEN "verified" ELSE "not_found"
  ELSE "invalid_signature"

\* which branch the signature handler takes
rzpOutcome(o, paymentId, signature) ==
  IF Hmac(KeySecret, SignedBody(o, paymentId)) = signature
  THEN IF MapHas(orderStore, o) THEN "verified" ELSE "not_found"
  ELSE "invalid_signature"

\* Everything from the token generation to the first await on mail I/O, and,
\* when sendPDFEmail throws before that I/O, on through to the response.
\* `others` is the bag of the other suspended requests.
IssueToken(others, o, paymentId, orderData, evidence) ==
  LET tok == randomToken
      cp == MapSet(completedPayments, tok,
                   PaymentRecord(orderData, paymentId, o, now))
  IN /\ nextToken <= MaxTokens
     /\ Work < workLimit
     /\ completedPayments' = cp
     /\ paymentsFile' = Saved(cp, now)
     /\ nextToken' = nextToken + 1
     /\ mailAttempts' = [mailAttempts EXCEPT ![tok] = @ + 1]
     /\ IF EmailFilesPresent(orderData)
        THEN /\ reqs' = others (+) SetToBag({Suspended("email", o, orderData, tok,
                                                         evidence)})
             /\ UNCHANGED <<orderStore, isProcessingPayment>>
             /\ Silent
        ELSE /\ reqs' = others
             /\ orderStore' = MapDelete(orderStore, o)
             /\ Emit(Evidenced(verifiedResponse(tok, o, orderData, "threw"),
                                evidence))
             /\ isProcessingPayment' =
                  IF variant = "cashfree" THEN FALSE ELSE isProcessingPayment

\* signature strategy: src/server.js 210-296 and 1167-1236
RzpVerifyPayment(o, paymentId, signature) ==
  /\ variant \in SignatureVariants
  /\ UNCHANGED <<observe, workLimit, variant, assets, now, nextOrder, nextSweep, epoch>>
  /\ LET outcome == rzpOutcome(o, paymentId, signature)
         evidence == SignatureEvidence(o, paymentId, signature)
     IN
     IF outcome = "verified"
     THEN /\ CanSuspend
          /\ IssueToken(reqs, o, paymentId, MapGet(orderStore, o), evidence)
     ELSE IF outcome = "not_found"
     THEN /\ Emit(Evidenced(For(JsonFail("verify-payment", 400, "Order not found"), o),
                            evidence))
          /\ UNCHANGED <<orderStore, completedPayments, paymentsFile, reqs,
                         nextToken, mailAttempts, isProcessingPayment>>
     ELSE /\ Emit(Evidenced(For(JsonFail("verify-payment", 400, "Invalid signature"), o),
                            evidence))
          /\ UNCHANGED <<orderStore, completedPayments, paymentsFile, reqs,
                         nextToken, mailAttempts, isProcessingPayment>>

\* faulty variant: the pending order is left in the store
VerifyEmailSettled_keepingOrder(req, delivered) ==
  /\ req \in InFlight
  /\ req.pc = "email"
  /\ UNCHANGED <<observe, workLimit, variant, assets, now, completedPayments, paymentsFile,
                 nextOrder, nextToken, mailAttempts, nextSweep, epoch, orderStore>>
  /\ isProcessingPayment' =
       IF variant = "cashfree" THEN FALSE ELSE isProcessingPayment
  /\ Resume(req)
  /\ Emit(Evidenced(verifiedResponse(req.token, req.orderId, req.orderData,
                                     IF delivered THEN "delivered" ELSE "failed"),
                    req.evidence))

\* faulty variant: a failed email is sent a second time
VerifyEmailSettled_retrying(req, delivered) ==
  /\ req \in InFlight
  /\ req.pc = "email"
  /\ UNCHANGED <<observe, workLimit, variant, assets, now, completedPayments, paymentsFile,
                 nextOrder, nextToken, nextSweep, epoch>>
  /\ mailAttempts' = IF delivered THEN mailAttempts
                     ELSE [mailAttempts EXCEPT ![req.token] = @ + 1]
  /\ orderStore' = MapDelete(orderStore, req.orderId)
  /\ isProcessingPayment' =
       IF variant = "cashfree" THEN FALSE ELSE isProcessingPayment
  /\ Resume(req)
  /\ Emit(Evidenced(verifiedResponse(req.token, req.orderId, req.orderData,
                                     IF delivered THEN "delivered" ELSE "failed"),
                    req.evidence))

\* transporter.sendMail settled: the handler resumes after `await sendPDFEmail`
VerifyEmailSettled(req, delivered) ==
  /\ req \in InFlight
  /\ req.pc = "email"
  /\ UNCHANGED <<observe, workLimit, variant, assets, now, completedPayments, paymentsFile,
                 nextOrder, nextToken, mailAttempts, nextSweep, epoch>>
  /\ orderStore' = MapDelete(orderStore, req.orderId)
  /\ isProcessingPayment' =
       IF variant = "cashfree" THEN FALSE ELSE isProcessingPayment
  /\ Resume(req)
  /\ Emit(Evidenced(verifiedResponse(req.token, req.orderId, req.orderData,
                                     IF delivered THEN "delivered" ELSE "failed"),
                    req.evidence))

\* status-poll strategy: src/unnamed/part_000 243-355
PaymentStatuses == {"SUCCESS", "FAILED", "PENDING"}
CfPayment(id, status, t) ==
  [cf_payment_id |-> id, payment_status |-> status, payment_time |-> t]
\* what PGOrderFetchPayments can answer: a list of up to two payment attempts,
\* or a failure. "cf_1" is the latest attempt, "cf_2" an earlier one; the
\* gateway lists them latest first, or (one such answer) earliest first
GatewayLists ==
  {<<>>} \cup {<<CfPayment("cf_1", a, 2)>> : a \in PaymentStatuses}
    \cup {<<CfPayment("cf_1", "SUCCESS", 2), CfPayment("cf_2", "FAILED", 1)>>,
          <<CfPayment("cf_1", "FAILED", 2), CfPayment("cf_2", "SUCCESS", 1)>>,
          <<CfPayment("cf_2", "FAILED", 1), CfPayment("cf_1", "SUCCESS", 2)>>}
GatewayResults == {[ok |-> TRUE, data |-> l] : l \in GatewayLists}
                    \cup {[ok |-> FALSE, data |-> <<>>]}

\* faulty variant: a gateway failure is reported as a client error
GatewayErrorResp_clientError ==
  JsonFail("verify-payment", 400, "Payment verification failed")

GatewayErrorResp ==
  [JsonFail("verify-payment", 500, "Payment verification failed")
     EXCEPT !.keys = @ \cup {"error"}]

\* the payment of the list that was made last
MostRecent(payments) ==
  CHOOSE p \in {payments[i] : i \in 1..Len(payments)} :
    \A i \in 1..Len(payments) : payments[i].payment_time <= p.payment_time

\* what the gateway answered, as recorded with the response; that a list
\* names an earlier payment first is recorded only by a run observing
\* "payment-order", any other run records the status the handler read
GatewayEvidence(result) ==
  IF ~result.ok THEN "gateway-failed"
  ELSE IF Len(result.data) = 0 THEN "no-payments"
  ELSE IF "payment-order" \in observe /\ MostRecent(result.data) # result.data[1]
  THEN CASE MostRecent(result.data).payment_status = "SUCCESS"
              -> "listed-FAILED-latest-SUCCESS"
         [] MostRecent(result.data).payment_status = "FAILED"
              -> "listed-SUCCESS-latest-FAILED"
  ELSE CASE result.data[1].payment_status = "SUCCESS" -> "status-SUCCESS"
         [] result.data[1].payment_status = "FAILED"  -> "status-FAILED"
         [] result.data[1].payment_status = "PENDING" -> "status-PENDING"

\* first segment: up to `await cashfree.PGOrderFetchPayments(orderId)`
CfVerifyPayment(o) ==
  /\ variant = "cashfree"
  /\ UNCHANGED <<observe, workLimit, variant, assets, now, orderStore, completedPayments,
                 paymentsFile, nextOrder, nextToken, mailAttempts, nextSweep,
                 epoch>>
  /\ isProcessingPayment' = TRUE
  /\ IF ~MapHas(orderStore, o)
     THEN /\ UNCHANGED reqs
          /\ Emit(For(JsonFail("verify-payment", 400,
                   "Order not found or expired. Please try creating a new order."), o))
     ELSE /\ CanSuspend
          /\ Suspend(Suspended("gateway", o, MapGet(orderStore, o), 0, "none"))
          /\ Silent

\* second segment: the gateway call settled
CfVerifyGatewaySettled(req, result) ==
  /\ variant = "cashfree"
  /\ req \in InFlight
  /\ req.pc = "gateway"
  /\ UNCHANGED <<observe, workLimit, variant, assets, now, nextOrder, nextSweep, epoch>>
  /\ LET o == req.orderId
         others == reqs (-) SetToBag({req})
         evidence == GatewayEvidence(result)
     IN
     IF ~result.ok
     THEN /\ isProcessingPayment' = FALSE
          /\ reqs' = others
          /\ Emit(Evidenced(For(GatewayErrorResp, o), evidence))
          /\ UNCHANGED <<orderStore, completedPayments, paymentsFile,
                         nextToken, mailAttempts>>
     ELSE IF Len(result.data) > 0
     THEN IF result.data[1].payment_status = "SUCCESS"
          THEN IssueToken(others, o, result.data[1].cf_payment_id, req.orderData,
                          evidence)
          ELSE /\ isProcessingPayment' = FALSE
               /\ reqs' = others
               /\ Emit(Evidenced(For(JsonFail("verify-payment", 400,
                                              "Payment failed or pending"), o),
                                 evidence))
               /\ UNCHANGED <<orderStore, completedPayments, paymentsFile,
                              nextToken, mailAttempts>>
     ELSE /\ isProcessingPayment' = FALSE
          /\ reqs' = others
          /\ Emit(Evidenced(For(JsonFail("verify-payment", 400,
                                         "No payment found for this order"), o),
                            evidence))
          /\ UNCHANGED <<orderStore, completedPayments, paymentsFile,
                         nextToken, mailAttempts>>

\* ------------------------------------------------------------ downloads
\* tokens a client may present: every issued one, and one that never was
ForgedToken == MaxTokens + 1
TokenInputs == MapKeys(completedPayments) \cup {ForgedToken}

PageItems(tok, pdfs) == [i \in 1..Len(pdfs) |-> [index |-> i, pdf |-> pdfs[i]]]

\* faulty variant: the page lists the whole bundle whatever was purchased
DownloadPage_wholeBundle(tok, paymentData) ==
  [route |-> "download-pdf", status |-> 200, kind |-> "html", keys |-> {},
   success |-> FALSE, message |-> "", token |-> tok,
   items |-> PageItems(tok, DefaultPdfs),
   about |-> tok, mail |-> "none", evidence |-> "none", gateway |-> "none"]

DownloadPage(tok, paymentData) ==
  [route |-> "download-pdf", status |-> 200, kind |-> "html", keys |-> {},
   success |-> FALSE, message |-> "", token |-> tok,
   items |-> IF variant = "legacy" THEN PageItems(tok, DefaultPdfs)
             ELSE PageItems(tok, IF paymentData.pdfs = Undefined
                                 THEN DefaultPdfs ELSE paymentData.pdfs),
   about |-> tok, mail |-> "none", evidence |-> "none", gateway |-> "none"]

\* faulty variant: marking a record also stamps its completion time anew
markDownloaded_stampingCompletion(paymentData, t) ==
  [paymentData EXCEPT !.downloaded = TRUE, !.downloadedAt = Date(t),
                      !.completedAt = Date(t)]

markDownloaded(paymentData, t) ==
  [paymentData EXCEPT !.downloaded = TRUE, !.downloadedAt = Date(t)]

\* faulty variant: a token is refused once its record is marked downloaded
pdfOutcome_singleUse(tok) ==
  IF ~MapHas(completedPayments, tok) THEN "unknown_token"
  ELSE IF MapGet(completedPayments, tok).downloaded THEN "unknown_token"
  ELSE IF ~(Luxury \in assets /\ Premium \in assets) THEN "files_missing"
  ELSE "page"

\* which way the download-pdf handler leaves
pdfOutcome(tok) ==
  IF ~MapHas(completedPayments, tok) THEN "unknown_token"
  ELSE IF ~(Luxury \in assets /\ Premium \in assets) THEN "files_missing"
  ELSE "page"

\* whether the token presented was used for a download page before
TokenEvidence(tok) ==
  IF ~MapHas(completedPayments, tok) THEN "token-unknown"
  ELSE IF MapGet(completedPayments, tok).downloaded THEN "repeat-download"
  ELSE "first-download"

\* GET /api/download-pdf/:token
DownloadPdf(tok) ==
  /\ UNCHANGED <<observe, workLimit, variant, assets, now, orderStore, reqs, nextOrder, nextToken,
                 mailAttempts, isProcessingPayment, nextSweep,
                 epoch>>
  /\ LET outcome == pdfOutcome(tok)
         evidence == TokenEvidence(tok)
     IN
     IF outcome = "unknown_token"
     THEN /\ Emit(Evidenced(For(JsonFail("download-pdf", 404,
                                         "Invalid or expired download link"), tok),
                            evidence))
          /\ UNCHANGED <<completedPayments, paymentsFile>>
     ELSE IF outcome = "files_missing"
     THEN /\ Emit(Evidenced(For(JsonFail("download-pdf", 404, "PDF files not found"),
                                tok), evidence))
          /\ UNCHANGED <<completedPayments, paymentsFile>>
     ELSE LET paymentData == markDownloaded(MapGet(completedPayments, tok), now)
              cp == MapSet(completedPayments, tok, paymentData)
          IN /\ completedPayments' = cp
             /\ paymentsFile' = Saved(cp, now)
             /\ Emit(Evidenced(DownloadPage(tok, paymentData), evidence))

\* request-path strings, as the sequence of their characters
FileNumbers == {<<"0">>, <<"1">>, <<"2">>, <<"3">>, <<"-", "1">>, <<"a">>,
                <<"1", "a">>}
Digits == {"0", "1", "2", "3", "4", "5", "6", "7", "8", "9"}
DigitValue(c) ==
  CASE c = "0" -> 0 [] c = "1" -> 1 [] c = "2" -> 2 [] c = "3" -> 3
    [] c = "4" -> 4 [] c = "5" -> 5 [] c = "6" -> 6 [] c = "7" -> 7
    [] c = "8" -> 8 [] c = "9" -> 9

\* number of leading decimal digits of s
RECURSIVE DigitPrefixLen(_)
DigitPrefixLen(s) ==
  IF s # <<>> /\ Head(s) \in Digits THEN 1 + DigitPrefixLen(Tail(s)) ELSE 0

RECURSIVE DigitsValue(_, _)
DigitsValue(s, acc) ==
  IF s # <<>> /\ Head(s) \in Digits
  THEN DigitsValue(Tail(s), 10 * acc + DigitValue(Head(s)))
  ELSE acc

\* parseInt(s): optional sign, then the longest decimal prefix; NaN without one
parseInt(s) ==
  LET neg == s # <<>> /\ Head(s) = "-"
      body == IF s # <<>> /\ Head(s) \in {"-", "+"} THEN Tail(s) ELSE s
  IN IF DigitPrefixLen(body) = 0 THEN [nan |-> TRUE, val |-> 0]
     ELSE [nan |-> FALSE,
           val |-> IF neg THEN 0 - DigitsValue(body, 0) ELSE DigitsValue(body, 0)]

\* faulty variant: the status of a failure is dropped and the text sent as 200
FileResp_statusDropped(status, message, pdf) ==
  [route |-> "download-file", status |-> 200,
   kind |-> IF status = 200 THEN "file" ELSE "text", keys |-> {},
   success |-> FALSE, message |-> message, token |-> 0,
   items |-> IF status = 200 THEN <<pdf>> ELSE <<>>, about |-> 0, mail |-> "none", evidence |-> "none", gateway |-> "none"]

FileResp(status, message, pdf) ==
  [route |-> "download-file", status |-> status,
   kind |-> IF status = 200 THEN "file" ELSE "text", keys |-> {},
   success |-> FALSE, message |-> message, token |-> 0,
   items |-> IF status = 200 THEN <<pdf>> ELSE <<>>, about |-> 0, mail |-> "none", evidence |-> "none", gateway |-> "none"]

\* faulty variant: a record already marked downloaded serves no file
resolveFile_onceOnly(paymentData, fileNumber) ==
  IF paymentData.downloaded THEN [status |-> 404, pdf |-> ""]
  ELSE IF variant = "legacy"
  THEN IF fileNumber = <<"1">> THEN [status |-> 200, pdf |-> Luxury]
       ELSE IF fileNumber = <<"2">> THEN [status |-> 200, pdf |-> Premium]
       ELSE [status |-> 404, pdf |-> ""]
  ELSE LET n == parseInt(fileNumber)
           userPdfs == IF paymentData.pdfs = Undefined THEN DefaultPdfs
                       ELSE paymentData.pdfs
       IN IF n.nan THEN [status |-> 500, pdf |-> ""]
          ELSE IF n.val - 1 < 0 \/ n.val - 1 >= Len(userPdfs)
          THEN [status |-> 404, pdf |-> ""]
          ELSE [status |-> 200, pdf |-> userPdfs[n.val]]

\* faulty variant: the index is taken in the whole bundle, not in the purchase
resolveFile_fromBundle(paymentData, fileNumber) ==
  IF variant = "legacy"
  THEN IF fileNumber = <<"1">> THEN [status |-> 200, pdf |-> Luxury]
       ELSE IF fileNumber = <<"2">> THEN [status |-> 200, pdf |-> Premium]
       ELSE [status |-> 404, pdf |-> ""]
  ELSE LET n == parseInt(fileNumber)
       IN IF n.nan THEN [status |-> 500, pdf |-> ""]
          ELSE IF n.val - 1 < 0 \/ n.val - 1 >= Len(DefaultPdfs)
          THEN [status |-> 404, pdf |-> ""]
          ELSE [status |-> 200, pdf |-> DefaultPdfs[n.val]]

\* the file the request resolves to, or the status it fails with
resolveFile(paymentData, fileNumber) ==
  IF variant = "legacy"
  THEN IF fileNumber = <<"1">> THEN [status |-> 200, pdf |-> Luxury]
       ELSE IF fileNumber = <<"2">> THEN [status |-> 200, pdf |-> Premium]
       ELSE [status |-> 404, pdf |-> ""]
  ELSE LET n == parseInt(fileNumber)
           userPdfs == IF paymentData.pdfs = Undefined THEN DefaultPdfs
                       ELSE paymentData.pdfs
       IN \* NaN passes both comparisons; path.join(undefined) then throws
          IF n.nan THEN [status |-> 500, pdf |-> ""]
          ELSE IF n.val - 1 < 0 \/ n.val - 1 >= Len(userPdfs)
          THEN [status |-> 404, pdf |-> ""]
          ELSE [status |-> 200, pdf |-> userPdfs[n.val]]

\* what the index in the request path is, whatever the handler makes of it
IndexEvidence(fileNumber) ==
  CASE fileNumber = <<"1">> -> "index-1"
    [] fileNumber = <<"2">> -> "index-2"
    [] fileNumber \in {<<"0">>, <<"3">>, <<"-", "1">>} -> "index-out-of-range"
    [] OTHER -> "index-not-a-number"

\* GET /api/download-file/:token/:fileNumber
DownloadFile(tok, fileNumber) ==
  /\ UNCHANGED <<observe, workLimit, variant, assets, now, orderStore, completedPayments,
                 paymentsFile, reqs, nextOrder, nextToken, mailAttempts, isProcessingPayment, nextSweep, epoch>>
  /\ LET Reply(response) ==
           Emit(Evidenced(For(response, tok), IndexEvidence(fileNumber)))
     IN
     IF ~MapHas(completedPayments, tok)
     THEN Reply(FileResp(404, "Invalid or expired download link", ""))
     ELSE LET f == resolveFile(MapGet(completedPayments, tok), fileNumber)
          IN IF f.status = 404 THEN Reply(FileResp(404, "File not found", ""))
             ELSE IF f.status = 500
             THEN Reply(FileResp(500, "Failed to download PDF", ""))
             ELSE IF f.pdf \notin assets
             THEN Reply(FileResp(404, "PDF file not found", ""))
             ELSE Reply(FileResp(200, "", f.pdf))

\* ------------------------------------------------------------ admin
RECURSIVE SumAmounts(_)
SumAmounts(values) ==
  IF values = <<>> THEN 0 ELSE Head(values).amount + SumAmounts(Tail(values))

\* amounts are summed after p.amount / 100 in the razorpay variant; the sum
\* is kept in hundredths so that no fraction is lost
RevenueHundredths(values) ==
  IF variant = "cashfree" THEN SumAmounts(values) * 100 ELSE SumAmounts(values)

CountDownloaded(values) ==
  Cardinality({i \in 1..Len(values) : values[i].downloaded})

\* p.amount / 100 in the razorpay variant, p.amount in the cashfree variant,
\* in hundredths
AmountHundredths(p) ==
  IF variant = "cashfree" THEN p.amount * 100 ELSE p.amount

\* packageStats: one entry per package name met, filled record by record
RECURSIVE PackageStats(_)
PackageStats(values) ==
  IF values = <<>> THEN <<>>
  ELSE LET rest == PackageStats(SubSeq(values, 1, Len(values) - 1))
           payment == values[Len(values)]
           name == payment.packageName
       IN IF name \in DOMAIN rest
          THEN [rest EXCEPT ![name] =
                  [count |-> @.count + 1,
                   revenue |-> @.revenue + AmountHundredths(payment)]]
          ELSE rest @@ (name :> [count |-> 1,
                                 revenue |-> AmountHundredths(payment)])

\* paymentsArray.sort((a, b) => new Date(b.completedAt) - new Date(a.completedAt)):
\* latest first; the sort is stable, records of one instant keep their order
InsertByCompletedAt(sorted, p) ==
  LET k == Cardinality({i \in 1..Len(sorted) :
                          TimeOf(sorted[i].completedAt) >= TimeOf(p.completedAt)})
  IN SubSeq(sorted, 1, k) \o <<p>> \o SubSeq(sorted, k + 1, Len(sorted))
RECURSIVE SortByCompletedAt(_)
SortByCompletedAt(values) ==
  IF values = <<>> THEN <<>>
  ELSE InsertByCompletedAt(SortByCompletedAt(SubSeq(values, 1, Len(values) - 1)),
                           values[Len(values)])

\* faulty variant: the listing keeps the order of the ledger
RecentPayments_unsorted(paymentsArray) ==
  LET listed == SubSeq(paymentsArray, 1,
                       IF Len(paymentsArray) < RecentLimit THEN Len(paymentsArray)
                       ELSE RecentLimit)
  IN [i \in 1..Len(listed) |->
        [email |-> listed[i].email, fullName |-> listed[i].fullName,
         packageName |-> listed[i].packageName,
         amount |-> IF variant = "legacy" THEN 0 ELSE AmountHundredths(listed[i]),
         completedAt |-> listed[i].completedAt,
         downloaded |-> listed[i].downloaded,
         downloadedAt |-> listed[i].downloadedAt]]

\* recentPayments: .sort(...).slice(0, 10).map(...); the legacy listing has
\* no packageName and no amount
RecentPayments(paymentsArray) ==
  LET sorted == SortByCompletedAt(paymentsArray)
      listed == SubSeq(sorted, 1,
                       IF Len(sorted) < RecentLimit THEN Len(sorted)
                       ELSE RecentLimit)
  IN [i \in 1..Len(listed) |->
        [email |-> listed[i].email, fullName |-> listed[i].fullName,
         packageName |-> listed[i].packageName,
         amount |-> IF variant = "legacy" THEN 0 ELSE AmountHundredths(listed[i]),
         completedAt |-> listed[i].completedAt,
         downloaded |-> listed[i].downloaded,
         downloadedAt |-> listed[i].downloadedAt]]

\* items: totalPayments, totalDownloads, totalRevenue (hundredths),
\* packageStats, recentPayments
StatsResp(paymentsArray) ==
  [route |-> "admin-stats", status |-> 200, kind |-> "json",
   keys |-> {"totalPayments", "totalDownloads", "recentPayments"}
              \cup (IF variant = "legacy" THEN {}
                    ELSE {"totalRevenue", "packageStats", "last7Days"}),
   success |-> FALSE, message |-> "", token |-> 0,
   items |-> <<Len(paymentsArray), CountDownloaded(paymentsArray),
               IF variant = "legacy" THEN 0
               ELSE RevenueHundredths(paymentsArray),
               IF variant = "legacy" THEN <<>> ELSE PackageStats(paymentsArray),
               RecentPayments(paymentsArray)>>,
   about |-> 0, mail |-> "none", evidence |-> "none", gateway |-> "none"]

\* faulty variant: the ledger itself is put in the order of the listing
AdminStats_sortingLedger ==
  /\ UNCHANGED <<observe, workLimit, variant, assets, now, orderStore,
                 paymentsFile, reqs, nextOrder, nextToken, mailAttempts, isProcessingPayment, nextSweep, epoch>>
  /\ completedPayments' =
       LET sorted == SortByCompletedAt(MapValues(completedPayments))
           TokenOf(v) == completedPayments[CHOOSE i \in 1..Len(completedPayments) :
                                              completedPayments[i][2] = v][1]
       IN [i \in 1..Len(sorted) |-> <<TokenOf(sorted[i]), sorted[i]>>]
  /\ Emit(StatsResp(MapValues(completedPayments)))

\* GET /api/admin/stats
AdminStats ==
  /\ UNCHANGED <<observe, workLimit, variant, assets, now, orderStore, completedPayments,
                 paymentsFile, reqs, nextOrder, nextToken, mailAttempts, isProcessingPayment, nextSweep, epoch>>
  /\ Emit(StatsResp(MapValues(completedPayments)))

AdminSecretKey == "your-secret-key-here"
AuthKeys == {"", AdminSecretKey, "guess"}

PaymentCountResp(paymentsArray) ==
  [route |-> "payment-count", status |-> 200, kind |-> "json",
   keys |-> {"success", "totalPayments", "todayPayments", "totalRevenue",
             "todayRevenue", "timestamp"},
   success |-> TRUE, message |-> "", token |-> 0,
   items |-> <<Len(paymentsArray), SumAmounts(paymentsArray)>>, about |-> 0, mail |-> "none", evidence |-> "none", gateway |-> "none"]

\* a key as it arrives in the query string or in the x-auth-key header: a
\* string, or nothing
KeyString(k) == <<"String", k>>
SuppliedKeys == {Undefined} \cup {KeyString(k) : k \in AuthKeys}
\* req.query.key || req.headers["x-auth-key"]
authKeyOf(queryKey, headerKey) ==
  IF queryKey = Undefined \/ queryKey = KeyString("") THEN headerKey ELSE queryKey

\* what the request carries, whatever the handler makes of it
KeyEvidence(queryKey, headerKey) ==
  LET supplied == {queryKey, headerKey} \ {Undefined, KeyString("")}
  IN IF supplied = {} THEN "key-absent"
     ELSE IF supplied = {KeyString(AdminSecretKey)} THEN "key-right"
     ELSE IF KeyString(AdminSecretKey) \in supplied THEN "key-right-and-wrong"
     ELSE "key-wrong"

\* faulty variant: any key that is supplied opens the endpoint
countOutcome_anyKey(queryKey, headerKey) ==
  IF authKeyOf(queryKey, headerKey) \in {Undefined, KeyString("")}
  THEN "unauthorized" ELSE "aggregates"

\* authKey !== expectedKey
countOutcome(queryKey, headerKey) ==
  IF authKeyOf(queryKey, headerKey) # KeyString(AdminSecretKey)
  THEN "unauthorized" ELSE "aggregates"

\* GET /api/private/payment-count (not in the legacy variant)
PaymentCount(queryKey, headerKey) ==
  /\ variant # "legacy"
  /\ UNCHANGED <<observe, workLimit, variant, assets, now, orderStore, completedPayments,
                 paymentsFile, reqs, nextOrder, nextToken, mailAttempts, isProcessingPayment, nextSweep, epoch>>
  /\ IF countOutcome(queryKey, headerKey) = "unauthorized"
     THEN Emit(Evidenced(JsonFail("payment-count", 401, "Unauthorized"),
                         KeyEvidence(queryKey, headerKey)))
     ELSE Emit(Evidenced(PaymentCountResp(MapValues(completedPayments)),
                         KeyEvidence(queryKey, headerKey)))

\* ------------------------------------------------------------ time
Tick ==
  /\ now < MaxTicks * TickMinutes
  /\ Work < workLimit
  /\ Silent
  /\ variant = "cashfree" => now < nextSweep
  /\ now' = now + TickMinutes
  /\ UNCHANGED <<observe, workLimit, variant, assets, orderStore, completedPayments, paymentsFile,
                 reqs, nextOrder, nextToken, mailAttempts,
                 isProcessingPayment, nextSweep, epoch>>

\* faulty variant: the sweep also drops the records already downloaded
Sweep_purging ==
  /\ variant = "cashfree"
  /\ now >= nextSweep
  /\ LET thirtyMinutesAgo == now - ExpiryMinutes
     IN orderStore' = SelectSeq(orderStore,
                        LAMBDA e : ~(TimeOf(e[2].createdAt) < thirtyMinutesAgo))
  /\ completedPayments' = SelectSeq(completedPayments, LAMBDA e : ~e[2].downloaded)
  /\ nextSweep' = nextSweep + SweepIntervalMinutes
  /\ Silent
  /\ UNCHANGED <<observe, workLimit, variant, assets, now, paymentsFile, reqs,
                 nextOrder, nextToken, mailAttempts,
                 isProcessingPayment, epoch>>

\* faulty variant: an order exactly 30 minutes old is swept too
Sweep_atThirtyMinutes ==
  /\ variant = "cashfree"
  /\ now >= nextSweep
  /\ LET thirtyMinutesAgo == now - ExpiryMinutes
     IN orderStore' = SelectSeq(orderStore,
                        LAMBDA e : ~(TimeOf(e[2].createdAt) <= thirtyMinutesAgo))
  /\ nextSweep' = nextSweep + SweepIntervalMinutes
  /\ Silent
  /\ UNCHANGED <<observe, workLimit, variant, assets, now, completedPayments, paymentsFile, reqs,
                 nextOrder, nextToken, mailAttempts,
                 isProcessingPayment, epoch>>

\* setInterval callback of the cashfree variant
Sweep ==
  /\ variant = "cashfree"
  /\ now >= nextSweep
  /\ LET thirtyMinutesAgo == now - ExpiryMinutes
     IN orderStore' = SelectSeq(orderStore,
                        LAMBDA e : ~(TimeOf(e[2].createdAt) < thirtyMinutesAgo))
  /\ nextSweep' = nextSweep + SweepIntervalMinutes
  /\ Silent
  /\ UNCHANGED <<observe, workLimit, variant, assets, now, completedPayments, paymentsFile, reqs,
                 nextOrder, nextToken, mailAttempts,
                 isProcessingPayment, epoch>>

\* The process is stopped and started again: memory is lost, requests in
\* flight die, the razorpay variant reloads payments_data.json.
Restart ==
  /\ epoch < MaxRestarts
  /\ Work < workLimit
  /\ Silent
  /\ epoch' = epoch + 1
  /\ orderStore' = <<>>
  /\ completedPayments' = IF variant = "razorpay" THEN loadPaymentData(paymentsFile)
                          ELSE <<>>
  /\ reqs' = EmptyBag
  /\ isProcessingPayment' = FALSE
  /\ nextSweep' = now + SweepIntervalMinutes
  /\ UNCHANGED <<observe, workLimit, variant, assets, now, paymentsFile, nextOrder, nextToken,
                 mailAttempts>>

\* A route that is not under observation and whose request changes nothing
\* takes the same step for every such request: one request stands for all.
Requests(route, inputs, changing, one) ==
  IF route \in observe THEN inputs ELSE changing \cup {one}

CreateOrderInputs ==
  Requests("create-order",
           {<<b, g>> : b \in Bodies, g \in BOOLEAN},
           {<<Body("A", "a@x.com", "111", p), TRUE>> : p \in PackageNames},
           <<Body("A", "a@x.com", "111", "Unknown Pack"), FALSE>>)
FileNumberInputs == Requests("download-file", FileNumbers, {}, <<"1">>)
FileTokenInputs == Requests("download-file", TokenInputs, {}, ForgedToken)
\* a list naming "cf_1" first and an earlier attempt after it is read like
\* the list of its first payment; a run not observing "payment-order" offers
\* the gateway answers that differ in what the handler reads
GatewayInputs ==
  Requests("payment-order", GatewayResults,
           {g \in GatewayResults :
              Len(g.data) <= 1 \/ g.data[1].cf_payment_id # "cf_1"},
           [ok |-> FALSE, data |-> <<>>])
AuthKeyInputs ==
  Requests("payment-count", SuppliedKeys \X SuppliedKeys, {},
           <<KeyString(AdminSecretKey), Undefined>>)

Next ==
  \/ \E in \in CreateOrderInputs :
        CreateOrder(in[1].fullName, in[1].email, in[1].mobile, in[1].packageName,
                    in[2])
  \/ \E o \in OrderIds, p \in PaymentIds :
        \E sig \in Signatures(o, p) : RzpVerifyPayment(o, p, sig)
  \/ \E o \in OrderIds : CfVerifyPayment(o)
  \/ \E req \in InFlight, g \in GatewayInputs : CfVerifyGatewaySettled(req, g)
  \/ \E req \in InFlight, d \in BOOLEAN : VerifyEmailSettled(req, d)
  \/ \E t \in TokenInputs : DownloadPdf(t)
  \/ \E t \in FileTokenInputs, n \in FileNumberInputs : DownloadFile(t, n)
  \/ AdminStats
  \/ \E k \in AuthKeyInputs : PaymentCount(k[1], k[2])
  \/ Tick
  \/ Sweep
  \/ Restart

Spec == Init /\ [][Next]_vars

\* the same server, watched at create-order; a watched route answers in many
\* ways, so the run is followed one unit of activity less far
ShortWork == MaxWork - 1
CreateObserved == {"create-order"}
InitCreate ==
  /\ Boot
  /\ observe = CreateObserved
  /\ workLimit = ShortWork
SpecCreate == InitCreate /\ [][Next]_vars

\* the same server, watched at verify-payment together with the order in
\* which the gateway lists the payments of an order
InitPoll ==
  /\ Boot
  /\ observe = {"verify-payment", "payment-order"}
  /\ workLimit = MaxWork
SpecPoll == InitPoll /\ [][Next]_vars

\* the same server, watched at the two download routes
DownloadsObserved == {"download-pdf", "download-file"}
InitDownloads ==
  /\ Boot
  /\ observe = DownloadsObserved
  /\ workLimit = ShortWork
SpecDownloads == InitDownloads /\ [][Next]_vars

\* The statistics routes read the ledger and nothing else. They are followed
\* from ledgers of up to MaxLedger records, as a run of purchases leaves
\* them: record i was issued token i for order i, completion times never go
\* down along the ledger.
PackagePatterns == {"starter", "pro", "combo", "rotating", "alternating"}
PackageAt(pattern, i) ==
  CASE pattern = "starter" -> "Starter Viral Pack"
    [] pattern = "pro" -> "Pro Viral Pack"
    [] pattern = "combo" -> "Special Combo Deal"
    [] pattern = "rotating" ->
         <<"Starter Viral Pack", "Pro Viral Pack", "Special Combo Deal">>[(i % 3) + 1]
    [] pattern = "alternating" ->
         <<"Special Combo Deal", "Starter Viral Pack">>[(i % 2) + 1]
TimePatterns == {"rising", "paired", "same"}
TimeAt(pattern, i) ==
  CASE pattern = "rising" -> i
    [] pattern = "paired" -> (i + 1) \div 2
    [] pattern = "same" -> 1
DownloadPatterns == {"none", "odd"}
LedgerRecord(i, packages, times, downloads) ==
  LET t == TimeAt(times, i)
      paymentData == PaymentRecord(NewOrder("A", "a@x.com", "111",
                                            PackageAt(packages, i), t),
                                   "pay_1", i, t)
  IN IF downloads = "odd" /\ i % 2 = 1 THEN markDownloaded(paymentData, t)
     ELSE paymentData
Ledger(n, packages, times, downloads) ==
  [i \in 1..n |-> <<i, LedgerRecord(i, packages, times, downloads)>>]

AdminObserved == {"admin-stats", "payment-count"}
InitStats ==
  /\ variant \in Variants
  /\ assets = AllPdfs
  /\ \E n \in 0..MaxLedger, packages \in PackagePatterns, times \in TimePatterns,
        downloads \in DownloadPatterns :
        /\ completedPayments = Ledger(n, packages, times, downloads)
        /\ now = TimeAt(times, n)
        /\ nextOrder = n + 1
        /\ nextToken = n + 1
        /\ mailAttempts = [t \in 1..n |-> 1]
  /\ paymentsFile = IF variant = "razorpay"
                    THEN savePaymentData(completedPayments, now) ELSE NoFile
  /\ orderStore = <<>>
  /\ reqs = EmptyBag
  /\ isProcessingPayment = FALSE
  /\ nextSweep = now + SweepIntervalMinutes
  /\ epoch = 0
  /\ observe = AdminObserved
  /\ workLimit = 0
  /\ resp = NoResp
NextStats ==
  \/ AdminStats
  \/ \E k \in AuthKeyInputs : PaymentCount(k[1], k[2])
SpecStats == InitStats /\ [][NextStats]_vars

\* ------------------------------------------------------------ contact
\* POST /contact relays a support form by email. It reads the request body
\* and the mail configuration and nothing of the order store or the ledger.
\* The legacy variant has no such route.
MaxContacts == 1    \* contact requests waiting for the mail transport
ContactVariants == {"razorpay", "cashfree"}

\* a JavaScript string, as the sequence of its characters
Str(chars) == <<"String", chars>>
CharsOf(s) == s[2]
\* !value, for a field that is absent or a string
Falsy(v) == v = Undefined \/ CharsOf(v) = <<>>

\* /^[^\s@]+@[^\s@]+\.[^\s@]+$/.test(email): the "@" at i, the last "." the
\* expression settles on at j
emailRegexTest(email) ==
  LET s == CharsOf(email)
      Plain(a, b) == a <= b /\ \A k \in a..b : s[k] \notin {" ", "@"}
  IN \E i, j \in 1..Len(s) :
        /\ s[i] = "@"
        /\ s[j] = "."
        /\ Plain(1, i - 1)
        /\ Plain(i + 1, j - 1)
        /\ Plain(j + 1, Len(s))

ContactForm(fullName, email, issue) ==
  [fullName |-> fullName, email |-> email, issue |-> issue]
\* request bodies: complete ones, one with each field absent or empty, one
\* with nothing in it, and one for each way an address can be off
ContactEmails ==
  {Str(<<"a", "@", "b", ".", "c">>),
   Str(<<"a", "@", "b", ".", "c", ".", "d">>),
   Str(<<"a", "@", "b">>),
   Str(<<"a", "b", ".", "c">>),
   Str(<<"@", "b", ".", "c">>),
   Str(<<"a", "@", ".", "c">>),
   Str(<<"a", "@", "b", ".">>),
   Str(<<"a", " ", "@", "b", ".", "c">>),
   Str(<<"a", "@", "b", "@", "c", ".", "d">>)}
Blank == {Undefined, Str(<<>>)}
ContactForms ==
  {ContactForm(Str(<<"A">>), e, Str(<<"h", "i">>)) : e \in ContactEmails \cup Blank}
    \cup {ContactForm(n, Str(<<"a", "@", "b", ".", "c">>), Str(<<"h", "i">>)) : n \in Blank}
    \cup {ContactForm(Str(<<"A">>), Str(<<"a", "@", "b", ".", "c">>), i) : i \in Blank}
    \cup {ContactForm(Undefined, Undefined, Undefined),
          ContactForm(Undefined, Str(<<"a", "@", "b">>), Str(<<"h", "i">>))}

\* process.env.EMAIL_FROM, the address the admin notice goes to
EMAIL_FROM == Str(<<"EMAIL_FROM">>)
\* adminMailOptions and customerMailOptions, each handed to sendMail
ContactMail(to) == [to |-> to, state |-> "pending"]
ContactMails(form) == <<ContactMail(EMAIL_FROM), ContactMail(form.email)>>

\* items: the form the request carried, the emails handed to the transport
ContactResp(status, ok, keys, message, form, mails) ==
  [route |-> "contact", status |-> status, kind |-> "json", keys |-> keys,
   success |-> ok, message |-> message, token |-> 0, items |-> <<form, mails>>,
   about |-> 0, mail |-> "none", evidence |-> "none", gateway |-> "none"]
ContactInvalid(error, form) ==
  ContactResp(400, FALSE, {"success", "error"}, error, form, <<>>)
ContactSent(form, mails) ==
  ContactResp(200, TRUE, {"success", "message", "timestamp"},
              "Your message has been sent successfully!", form, mails)
\* `details` is undefined outside development and JSON drops it
ContactFailed(form, mails) ==
  ContactResp(500, FALSE, {"success", "error"},
              "Failed to send your message.", form, mails)

contactOutcome(form) ==
  IF Falsy(form.fullName) \/ Falsy(form.email) \/ Falsy(form.issue) THEN "fields-required"
  ELSE IF ~emailRegexTest(form.email) THEN "email-invalid"
  ELSE "send"

ContactsInFlight == {req \in InFlight : req.pc = "contact-mail"}
CanContact == BagCardinality([req \in ContactsInFlight |-> reqs[req]]) < MaxContacts

\* the handler up to `await Promise.all([...])`: both sendMail calls are made
Contact(form) ==
  /\ variant \in ContactVariants
  /\ UNCHANGED <<observe, workLimit, variant, assets, now, orderStore, completedPayments,
                 paymentsFile, nextOrder, nextToken, mailAttempts, isProcessingPayment,
                 nextSweep, epoch>>
  /\ LET outcome == contactOutcome(form)
     IN CASE outcome = "fields-required" ->
               /\ UNCHANGED reqs
               /\ Emit(ContactInvalid("All fields (fullName, email, issue) are required",
                                      form))
          [] outcome = "email-invalid" ->
               /\ UNCHANGED reqs
               /\ Emit(ContactInvalid("Please provide a valid email address", form))
          [] outcome = "send" ->
               /\ CanContact
               /\ Suspend(Suspended("contact-mail", 0,
                                    [form |-> form, mails |-> ContactMails(form),
                                     answered |-> FALSE],
                                    0, "none"))
               /\ Silent

\* faulty variant: the first email that goes out answers the request
ContactMailSettled_firstWins(req, i, delivered) ==
  /\ req \in ContactsInFlight
  /\ i \in 1..Len(req.orderData.mails)
  /\ req.orderData.mails[i].state = "pending"
  /\ UNCHANGED <<observe, workLimit, variant, assets, now, orderStore, completedPayments,
                 paymentsFile, nextOrder, nextToken, mailAttempts, isProcessingPayment,
                 nextSweep, epoch>>
  /\ LET mails == [req.orderData.mails EXCEPT
                     ![i].state = IF delivered THEN "sent" ELSE "failed"]
         settled == \A k \in 1..Len(mails) : mails[k].state # "pending"
         answers == ~req.orderData.answered
         after == [req EXCEPT !.orderData.mails = mails,
                              !.orderData.answered = TRUE]
     IN /\ reqs' = (reqs (-) SetToBag({req}))
                     (+) (IF settled THEN EmptyBag ELSE SetToBag({after}))
        /\ IF answers
           THEN Emit(IF delivered THEN ContactSent(req.orderData.form, mails)
                     ELSE ContactFailed(req.orderData.form, mails))
           ELSE Silent

\* one of the two sendMail promises settles. Promise.all resolves when both
\* have resolved and rejects with the first rejection; the handler answers
\* once, whatever the other promise does afterwards
ContactMailSettled(req, i, delivered) ==
  /\ req \in ContactsInFlight
  /\ i \in 1..Len(req.orderData.mails)
  /\ req.orderData.mails[i].state = "pending"
  /\ UNCHANGED <<observe, workLimit, variant, assets, now, orderStore, completedPayments,
                 paymentsFile, nextOrder, nextToken, mailAttempts, isProcessingPayment,
                 nextSweep, epoch>>
  /\ LET mails == [req.orderData.mails EXCEPT
                     ![i].state = IF delivered THEN "sent" ELSE "failed"]
         settled == \A k \in 1..Len(mails) : mails[k].state # "pending"
         allSent == \A k \in 1..Len(mails) : mails[k].state = "sent"
         answers == ~req.orderData.answered /\ (allSent \/ ~delivered)
         after == [req EXCEPT !.orderData.mails = mails,
                              !.orderData.answered = @ \/ answers]
     IN /\ reqs' = (reqs (-) SetToBag({req}))
                     (+) (IF settled THEN EmptyBag ELSE SetToBag({after}))
        /\ IF answers
           THEN Emit(IF allSent THEN ContactSent(req.orderData.form, mails)
                     ELSE ContactFailed(req.orderData.form, mails))
           ELSE Silent

\* The contact route is followed on its own, from the moments of a purchase:
\* nothing yet, an order pending, a record in the ledger, and both.
ContactObserved == {"contact"}
ContactInputs ==
  Requests("contact", ContactForms, {},
           ContactForm(Str(<<"A">>), Str(<<"a", "@", "b", ".", "c">>), Str(<<"h", "i">>)))
PurchaseMoments == {"start", "ordered", "purchased", "purchased-ordered"}
InitContact ==
  /\ variant \in ContactVariants
  /\ assets = AllPdfs
  /\ \E moment \in PurchaseMoments :
       LET records == IF moment \in {"purchased", "purchased-ordered"} THEN 1 ELSE 0
           orders == IF moment \in {"ordered", "purchased-ordered"} THEN 1 ELSE 0
       IN /\ completedPayments = Ledger(records, "combo", "rising", "none")
          /\ orderStore = IF orders = 0 THEN <<>>
                          ELSE <<<<records + 1,
                                   NewOrder("A", "a@x.com", "111", "Starter Viral Pack",
                                            records)>>>>
          /\ now = records
          /\ nextOrder = records + orders + 1
          /\ nextToken = records + 1
          /\ mailAttempts = [t \in TokenIds |-> IF t <= records THEN 1 ELSE 0]
  /\ paymentsFile = IF variant = "razorpay" THEN savePaymentData(completedPayments, now)
                    ELSE NoFile
  /\ reqs = EmptyBag
  /\ isProcessingPayment = FALSE
  /\ nextSweep = SweepIntervalMinutes
  /\ epoch = 0
  /\ observe = ContactObserved
  /\ workLimit = 0
  /\ resp = NoResp
NextContact ==
  \/ \E form \in ContactInputs : Contact(form)
  \/ \E req \in InFlight, i \in 1..2, d \in BOOLEAN : ContactMailSettled(req, i, d)
SpecContact == InitContact /\ [][NextContact]_vars

\* The server half an hour after its first purchase, with a second order
\* pending since then and the first sweep due, watched at download-pdf and
\* followed for two more units of activity: a second purchase, or the clock
\* step after which the sweep finds the pending order expired.
SecondWork == MaxWork + 3
InitSecond ==
  /\ variant \in Variants
  /\ assets = AllPdfs
  /\ now = TickMinutes
  /\ orderStore = <<<<2, NewOrder("A", "a@x.com", "111", "Starter Viral Pack", 0)>>>>
  /\ completedPayments =
       <<<<1, PaymentRecord(NewOrder("A", "a@x.com", "111", "Special Combo Deal", 0),
                            IF variant = "cashfree" THEN "cf_1" ELSE "pay_1", 1, 0)>>>>
  /\ paymentsFile = IF variant = "razorpay" THEN savePaymentData(completedPayments, 0)
                    ELSE NoFile
  /\ reqs = EmptyBag
  /\ nextOrder = 3
  /\ nextToken = 2
  /\ mailAttempts = [t \in TokenIds |-> IF t = 1 THEN 1 ELSE 0]
  /\ isProcessingPayment = FALSE
  /\ nextSweep = SweepIntervalMinutes
  /\ epoch = 0
  /\ observe = {"download-pdf"}
  /\ workLimit = SecondWork
  /\ resp = NoResp
SpecSecond == InitSecond /\ [][Next]_vars

\* The server while its process lives, with every gateway call and every
\* email send settling sooner or later. A suspended request is followed by
\* the locals it holds, so the requests in flight at one moment differ in
\* their order or in the await they stand at.
Distinguishable == \A req \in BagToSet(reqs) : CopiesIn(req, reqs) = 1
InitLive ==
  /\ Boot
  /\ observe = Observed
  /\ workLimit = ShortWork
NextLive ==
  \/ \E in \in CreateOrderInputs :
        CreateOrder(in[1].fullName, in[1].email, in[1].mobile, in[1].packageName,
                    in[2])
  \/ \E o \in OrderIds, p \in PaymentIds :
        \E sig \in Signatures(o, p) : RzpVerifyPayment(o, p, sig) /\ Distinguishable'
  \/ \E o \in OrderIds : CfVerifyPayment(o) /\ Distinguishable'
  \/ \E req \in InFlight, g \in GatewayInputs : CfVerifyGatewaySettled(req, g)
  \/ \E req \in InFlight, d \in BOOLEAN : VerifyEmailSettled(req, d)
  \/ \E t \in TokenInputs : DownloadPdf(t)
  \/ \E t \in FileTokenInputs, n \in FileNumberInputs : DownloadFile(t, n)
  \/ AdminStats
  \/ \E k \in AuthKeyInputs : PaymentCount(k[1], k[2])
  \/ Tick
  \/ Sweep
\* PGOrderFetchPayments settles for the request of order o
GatewaySettles(o) ==
  \E req \in InFlight, g \in GatewayInputs :
     req.orderId = o /\ CfVerifyGatewaySettled(req, g)
\* sendMail settles for the request that issued token tok
EmailSettles(tok) ==
  \E req \in InFlight, d \in BOOLEAN : req.token = tok /\ VerifyEmailSettled(req, d)
SpecLive ==
  /\ InitLive
  /\ [][NextLive]_vars
  /\ \A o \in OrderIds : WF_vars(GatewaySettles(o))
  /\ \A tok \in TokenIds : WF_vars(EmailSettles(tok))

\* the same server, followed one unit of activity further
LongWork == MaxWork + 1
InitLong ==
  /\ Boot
  /\ observe = Observed
  /\ workLimit = LongWork
SpecLong == InitLong /\ [][Next]_vars

\* ================================================================ claims
RecordsFor(cp, o) == {i \in 1..Len(cp) : cp[i][2].orderId = o}
HasRecord(o) == RecordsFor(completedPayments, o) # {}
Pending(o) == MapHas(orderStore, o)
\* the order was consumed by a verification
Redeemed(o) == HasRecord(o) /\ ~Pending(o)
\* this step sent a verify-payment response for order o
Answers(o) == resp'.route = "verify-payment" /\ resp'.about = o
\* ... and it is the step in which that request arrived: no suspended
\* request was resumed, the process was not restarted
AnswersOnArrival(o) == Answers(o) /\ reqs' = reqs /\ epoch' = epoch
NotFoundMessages ==
  {"Order not found",
   "Order not found or expired. Please try creating a new order."}
\* nothing is issued: no record, no token, no email
NothingIssued ==
  /\ completedPayments' = completedPayments
  /\ paymentsFile' = paymentsFile
  /\ nextToken' = nextToken
  /\ mailAttempts' = mailAttempts
\* what a record is, apart from its download mark
Identity(r) == [r EXCEPT !.downloaded = FALSE, !.downloadedAt = Undefined]

\* ---------------------------------------------------------------- C1
\* C1: whatever the interleaving of concurrent verify-payment requests, in
\* every reachable state at most one redemption record carries a given
\* orderId.
C1_OneRecordPerOrder ==
  \A o \in OrderIds : Cardinality(RecordsFor(completedPayments, o)) <= 1

\* ---------------------------------------------------------------- C2
\* C2 as stated: once an order has been redeemed, every verify-payment request
\* that arrives for it is answered 400 order-not-found and issues nothing.
C2_LaterVerifyIsNotFound ==
  [][\A o \in OrderIds :
       (Redeemed(o) /\ AnswersOnArrival(o)) =>
          /\ resp'.status = 400
          /\ resp'.message \in NotFoundMessages
          /\ NothingIssued]_vars

\* C2, amended: once an order has been redeemed, every verify-payment request
\* that arrives for it is answered 400 and issues no record, no token and no
\* email; the answer is order-not-found whenever the request was not turned
\* away for its signature (always so in the status-poll variant), and
\* "Invalid signature" exactly when its signature does not match.
C2_LaterVerifyIsRejected ==
  [][\A o \in OrderIds :
       (Redeemed(o) /\ AnswersOnArrival(o)) =>
          /\ resp'.status = 400
          /\ ~resp'.success
          /\ NothingIssued
          /\ orderStore' = orderStore
          /\ IF resp'.evidence = "signature-invalid"
             THEN resp'.message = "Invalid signature"
             ELSE resp'.message \in NotFoundMessages]_vars

\* a request with a valid signature for an order redeemed earlier was just
\* answered "Order not found"; the record of the first redemption is there
C2_Witness ==
  /\ resp.route = "verify-payment"
  /\ resp.evidence = "signature-valid"
  /\ resp.message = "Order not found"
  /\ Redeemed(resp.about)
  /\ reqs = EmptyBag

\* ---------------------------------------------------------------- C3
\* C3: no reachable state has an orderId that is both present in the order
\* store and the orderId of a redemption record.
C3_NeverPendingAndRedeemed ==
  \A o \in OrderIds : ~(Pending(o) /\ HasRecord(o))

\* ---------------------------------------------------------------- C4
\* C4: once a record is marked downloaded, its downloadedAt keeps the instant
\* of the first download-pdf call whatever is called later.
C4_DownloadedAtKept ==
  [][\A tok \in MapKeys(completedPayments) :
       (MapGet(completedPayments, tok).downloaded /\ MapHas(completedPayments', tok))
         => TimeOf(MapGet(completedPayments', tok).downloadedAt)
              = TimeOf(MapGet(completedPayments, tok).downloadedAt)]_vars

C6_TokenKeepsRecord ==
  [][epoch' = epoch =>
       /\ Len(completedPayments') >= Len(completedPayments)
       /\ \A tok \in MapKeys(completedPayments) :
            /\ MapHas(completedPayments', tok)
            /\ Identity(MapGet(completedPayments', tok))
                 = Identity(MapGet(completedPayments, tok))]_vars

\* a second token was issued after the record of the first had been
\* downloaded; the first token still leads to its record
C6_Witness ==
  /\ Len(completedPayments) = 2
  /\ completedPayments[1][1] # completedPayments[2][1]
  /\ completedPayments[1][2].downloaded
  /\ ~completedPayments[2][2].downloaded
  /\ epoch = 0

\* ---------------------------------------------------------------- C7
\* C7: in the status-poll variant, a verify-payment request whose gateway
\* call fails is answered 500; it creates no record, sends no email and
\* leaves the order store as it is, so that the order can be verified again.
C7_GatewayFailureKeepsOrder ==
  [][\A o \in OrderIds :
       (Answers(o) /\ resp'.evidence = "gateway-failed") =>
          /\ resp'.status = 500
          /\ ~resp'.success
          /\ NothingIssued
          /\ orderStore' = orderStore]_vars

\* the gateway call of a request just failed; its order is still pending
\* and nothing was issued for it
C7_Witness ==
  /\ variant = "cashfree"
  /\ resp.status = 500
  /\ resp.evidence = "gateway-failed"
  /\ Pending(resp.about)
  /\ ~HasRecord(resp.about)

\* ---------------------------------------------------------------- C8
\* C8: a verify-payment request whose verification is rejected (signature
\* mismatch, gateway status other than SUCCESS, no payment found) is answered
\* 400, creates no record, sends no email and leaves the order store as it
\* is, so that the order stays redeemable.
Rejections ==
  {"signature-invalid", "status-FAILED", "status-PENDING", "no-payments"}
C8_RejectionKeepsOrder ==
  [][\A o \in OrderIds :
       (Answers(o) /\ resp'.evidence \in Rejections) =>
          /\ resp'.status = 400
          /\ ~resp'.success
          /\ NothingIssued
          /\ orderStore' = orderStore]_vars

\* a request for a pending order was just rejected; the order is still
\* pending and nothing was issued for it
C8_Witness ==
  /\ resp.route = "verify-payment"
  /\ resp.status = 400
  /\ resp.evidence \in Rejections
  /\ Pending(resp.about)
  /\ ~HasRecord(resp.about)

\* ---------------------------------------------------------------- C9
\* C9: when the email of a successful verification fails, the response is
\* still the success response carrying the token, the record stays in the
\* ledger under that token, and the pending order is gone.
C9_EmailFailureKeepsToken ==
  (resp.route = "verify-payment" /\ resp.mail \in {"failed", "threw"}) =>
     /\ resp.status = 200
     /\ resp.success
     /\ "downloadToken" \in resp.keys
     /\ MapHas(completedPayments, resp.token)
     /\ MapGet(completedPayments, resp.token).orderId = resp.about
     /\ ~Pending(resp.about)
     /\ mailAttempts[resp.token] = 1

\* the mail transport just failed for a verified payment
C9_Witness ==
  /\ resp.route = "verify-payment"
  /\ resp.mail = "failed"
  /\ resp.status = 200
  /\ MapHas(completedPayments, resp.token)

C11_InvalidBodyRejected ==
  [][(/\ resp'.route = "create-order"
      /\ \/ resp'.evidence = "fields-missing"
         \/ /\ variant # "legacy"
            /\ resp'.evidence \in {"package-missing", "package-unknown"})
       => /\ resp'.status = 400
          /\ resp'.gateway = "not-called"
          /\ orderStore' = orderStore
          /\ nextOrder' = nextOrder]_vars

\* ---------------------------------------------------------------- C12
\* C12: when the gateway's order-creation call fails, create-order answers
\* 500 and stores nothing; an order enters the order store only in a step
\* whose gateway call succeeded, under the id that step answers with.
C12_GatewayFailureStoresNothing ==
  [][/\ (resp'.route = "create-order" /\ resp'.gateway = "failed") =>
          /\ resp'.status = 500
          /\ ~resp'.success
          /\ orderStore' = orderStore
          /\ nextOrder' = nextOrder
     /\ \A o \in MapKeys(orderStore') \ MapKeys(orderStore) :
          /\ resp'.route = "create-order"
          /\ resp'.gateway = "ok"
          /\ resp'.status = 200
          /\ resp'.about = o]_vars

\* the gateway just failed for a complete request naming a catalog package,
\* and the order store is empty
C12_Witness ==
  /\ resp.route = "create-order"
  /\ resp.gateway = "failed"
  /\ resp.evidence = "complete"
  /\ resp.status = 500
  /\ orderStore = <<>>

\* ---------------------------------------------------------------- C13
\* C13: a pending order is not in the order store at any time from
\* createdAt + 30 minutes (expiry window) + 30 minutes (sweep interval) on,
\* once the timer callbacks due by that time have run; verify-payment then
\* finds no order.
SweepDue == variant = "cashfree" /\ now >= nextSweep
C13_ExpiredOrdersAbsent ==
  \A i \in 1..Len(orderStore) :
    (now >= TimeOf(orderStore[i][2].createdAt) + ExpiryMinutes + SweepIntervalMinutes)
      => SweepDue

\* ---------------------------------------------------------------- C14
\* C14: once the sweep has removed a pending order, no step creates a
\* redemption record for its orderId, not even the step of a verify-payment
\* request that was waiting for the gateway when the sweep ran.
\* An order id that was handed out and has neither a pending order nor a
\* record, in a process that never restarted, was removed by the sweep.
Swept(o) ==
  /\ variant = "cashfree"
  /\ epoch = 0
  /\ o < nextOrder
  /\ ~Pending(o)
  /\ ~HasRecord(o)
C14_ExpiredIsTerminal ==
  [][\A o \in OrderIds :
       Swept(o) => RecordsFor(completedPayments', o) = {}]_vars

\* ---------------------------------------------------------------- C15
\* C15: a download-file request with a known token and an index i between 1
\* and the number of purchased items is answered with the i-th purchased
\* item (or 404 when that file is not on disk), and every file download-file
\* serves is an item of the token's record.
ItemsOf(paymentData) ==
  IF paymentData.pdfs = Undefined THEN DefaultPdfs ELSE paymentData.pdfs
IndexName(i) == IF i = 1 THEN "index-1" ELSE "index-2"
FileServed == resp.route = "download-file" /\ resp.status = 200
C15_ServesPurchasedItem ==
  resp.route = "download-file" =>
    /\ FileServed =>
         /\ MapHas(completedPayments, resp.about)
         /\ \E i \in 1..Len(ItemsOf(MapGet(completedPayments, resp.about))) :
              resp.items = <<ItemsOf(MapGet(completedPayments, resp.about))[i]>>
    /\ \A i \in 1..2 :
         ( /\ MapHas(completedPayments, resp.about)
           /\ resp.evidence = IndexName(i)
           /\ i <= Len(ItemsOf(MapGet(completedPayments, resp.about))) )
         => LET item == ItemsOf(MapGet(completedPayments, resp.about))[i]
            IN IF item \in assets
               THEN resp.status = 200 /\ resp.items = <<item>>
               ELSE resp.status = 404
\* the second item of a two-item purchase is served
C15_Witness ==
  /\ FileServed
  /\ resp.evidence = "index-2"
  /\ MapHas(completedPayments, resp.about)
  /\ Len(ItemsOf(MapGet(completedPayments, resp.about))) = 2
  /\ resp.items = <<ItemsOf(MapGet(completedPayments, resp.about))[2]>>

\* ---------------------------------------------------------------- C16
\* C16: a download-file request with a known token and an index that is
\* zero, negative, larger than the number of purchased items or not a number
\* is answered 404, never with a file and never with 500.
InvalidIndex ==
  /\ resp.route = "download-file"
  /\ MapHas(completedPayments, resp.about)
  /\ \/ resp.evidence \in {"index-out-of-range", "index-not-a-number"}
     \/ /\ resp.evidence = "index-2"
        /\ Len(ItemsOf(MapGet(completedPayments, resp.about))) = 1
C16_InvalidIndexIsNotFound == InvalidIndex => resp.status = 404

\* ---------------------------------------------------------------- C17
\* C17: after a download-file request that served a file, the record of its
\* token has downloaded = true.
C17_FileDownloadMarksRecord ==
  FileServed => MapGet(completedPayments, resp.about).downloaded

\* ---------------------------------------------------------------- C18
\* C18: for a known token, a download-pdf request succeeds whenever the
\* files the page route looks for are on disk, and a download-file request
\* with index 1 or 2 inside the purchased list succeeds whenever that file
\* is on disk, whatever was downloaded before; and no step of a running
\* process removes a token from the redemption ledger.
PageFilesExist == AllPdfs \subseteq assets
RepeatableAnswer ==
  /\ ( /\ resp.route = "download-pdf"
       /\ resp.evidence \in {"first-download", "repeat-download"}
       /\ PageFilesExist )
     => resp.status = 200 /\ resp.kind = "html"
  /\ \A i \in 1..2 :
       ( /\ resp.route = "download-file"
         /\ resp.evidence = IndexName(i)
         /\ MapHas(completedPayments, resp.about)
         /\ i <= Len(ItemsOf(MapGet(completedPayments, resp.about)))
         /\ ItemsOf(MapGet(completedPayments, resp.about))[i] \in assets )
       => resp.status = 200
TokensKept ==
  epoch' = epoch =>
    \A tok \in MapKeys(completedPayments) : MapHas(completedPayments', tok)
RepeatedPage ==
  resp.route = "download-pdf" /\ resp.evidence = "repeat-download"
C19_TokenSingleUse ==
  /\ RepeatedPage => resp.status # 200
  /\ FileServed => ~MapGet(completedPayments, resp.about).downloaded
\* C19 as the handlers behave: a download-pdf request with a token whose
\* record is already marked downloaded is served the page again, for the
\* same token, while the files the route looks for are on disk, and the
\* record stays marked; a token is never refused for having been used.
C19_TokenReusable ==
  (RepeatedPage /\ PageFilesExist) =>
     /\ resp.status = 200
     /\ resp.token = resp.about
     /\ MapHas(completedPayments, resp.about)
     /\ MapGet(completedPayments, resp.about).downloaded
\* the page is served a second time for the same token
C19_Witness ==
  /\ RepeatedPage
  /\ PageFilesExist
  /\ resp.status = 200
  /\ resp.kind = "html"

\* ---------------------------------------------------------------- C20
\* C20: a download-pdf or download-file request whose token is not a key of
\* the redemption ledger is answered 404 and changes neither the order
\* store, nor the ledger, nor the persisted ledger file.
UnknownTokenRequest ==
  /\ resp'.route \in {"download-pdf", "download-file"}
  /\ ~MapHas(completedPayments, resp'.about)
C20_UnknownTokenNotFound ==
  [][UnknownTokenRequest =>
       /\ resp'.status = 404
       /\ resp'.message = "Invalid or expired download link"
       /\ resp'.items = <<>>
       /\ orderStore' = orderStore
       /\ completedPayments' = completedPayments
       /\ paymentsFile' = paymentsFile]_vars
\* a token that was never issued is refused by download-file while the
\* ledger holds an issued one
C20_Witness ==
  /\ resp.route = "download-file"
  /\ resp.about = ForgedToken
  /\ resp.status = 404
  /\ completedPayments # <<>>
  /\ ~MapHas(completedPayments, ForgedToken)

\* ---------------------------------------------------------------- C21
\* C21: in the signature variants, a verify-payment request whose signature
\* is not HMAC-SHA256(secret, orderId | paymentId) is answered 400 "Invalid
\* signature" whether its order is pending or not and changes no order and
\* no record; every record that appears belongs to a request whose
\* signature matched; and a request whose signature matches is turned away
\* only when its order is not pending, otherwise it is answered with a token
\* whose record carries its order id and payment id.
IssuedFor(tok, evidence) ==
  \/ resp'.route = "verify-payment" /\ resp'.token = tok /\ resp'.evidence = evidence
  \/ \E req \in BagToSet(reqs') : req.token = tok /\ req.evidence = evidence
C21_SignatureDecides ==
  [][(variant \in SignatureVariants /\ epoch' = epoch) =>
       /\ \A o \in OrderIds :
            (Answers(o) /\ resp'.evidence = "signature-invalid") =>
               /\ resp'.status = 400
               /\ resp'.message = "Invalid signature"
               /\ NothingIssued
               /\ orderStore' = orderStore
               /\ reqs' = reqs
       /\ \A tok \in MapKeys(completedPayments') \ MapKeys(completedPayments) :
            IssuedFor(tok, "signature-valid")
       /\ \A o \in OrderIds :
            (Answers(o) /\ resp'.evidence = "signature-valid") =>
               IF resp'.status = 200
               THEN /\ resp'.success
                    /\ MapHas(completedPayments', resp'.token)
                    /\ MapGet(completedPayments', resp'.token).orderId = o
                    /\ MapGet(completedPayments', resp'.token).paymentId \in PaymentIds
               ELSE /\ ~Pending(o)
                    /\ resp'.message = "Order not found"
                    /\ NothingIssued]_vars
\* a request carrying the right signature for a pending order was verified
C21_Witness ==
  /\ variant \in SignatureVariants
  /\ resp.route = "verify-payment"
  /\ resp.evidence = "signature-valid"
  /\ resp.status = 200
  /\ MapHas(completedPayments, resp.token)
  /\ MapGet(completedPayments, resp.token).orderId = resp.about
  /\ MapGet(completedPayments, resp.token).paymentId = "pay_1"

\* ---------------------------------------------------------------- C22
\* C22: in the status-poll variant, a record appears exactly for a request
\* whose gateway answer has SUCCESS as the status of the payment made last,
\* the record carries that payment's id, and a request whose latest payment
\* has another status, or whose payment list is empty, is answered 400 and
\* issues nothing.
LatestSucceeded == {"status-SUCCESS", "listed-FAILED-latest-SUCCESS"}
LatestNotSucceeded ==
  {"status-FAILED", "status-PENDING", "no-payments", "listed-SUCCESS-latest-FAILED"}
C22_LatestPaymentDecides ==
  [][(variant = "cashfree" /\ epoch' = epoch) =>
       /\ \A tok \in MapKeys(completedPayments') \ MapKeys(completedPayments) :
            /\ \E e \in LatestSucceeded : IssuedFor(tok, e)
            /\ MapGet(completedPayments', tok).paymentId = "cf_1"
       /\ \A o \in OrderIds :
            /\ (Answers(o) /\ resp'.evidence \in LatestNotSucceeded) =>
                  resp'.status = 400 /\ NothingIssued
            /\ (Answers(o) /\ resp'.evidence \in LatestSucceeded) =>
                  resp'.status = 200]_vars

\* ---------------------------------------------------------------- C23
\* C23: a step that answers GET /api/admin/stats or GET
\* /api/private/payment-count, whatever the ledger and whatever the key,
\* leaves the order store, the ledger (its records, their fields and their
\* stored order) and the persisted ledger file as they were.
StatisticsAnswered == resp'.route \in {"admin-stats", "payment-count"}
C23_StatisticsArePureReads ==
  [][StatisticsAnswered =>
       /\ orderStore' = orderStore
       /\ completedPayments' = completedPayments
       /\ paymentsFile' = paymentsFile
       /\ reqs' = reqs
       /\ mailAttempts' = mailAttempts]_vars
\* the statistics were read from a ledger of more records than the listing
\* shows, the later ones stored last
C23_Witness ==
  /\ resp.route = "admin-stats"
  /\ Len(completedPayments) > RecentLimit
  /\ TimeOf(completedPayments[1][2].completedAt)
       < TimeOf(completedPayments[Len(completedPayments)][2].completedAt)
  /\ TimeOf(completedPayments[1][2].completedAt)
       < TimeOf(completedPayments[2][2].completedAt)

\* ---------------------------------------------------------------- C24
\* the sum of the values of a function with a finite domain
RECURSIVE SumOf(_)
SumOf(f) ==
  IF DOMAIN f = {} THEN 0
  ELSE LET x == CHOOSE x \in DOMAIN f : TRUE
       IN f[x] + SumOf([y \in (DOMAIN f) \ {x} |-> f[y]])
LedgerRecords == MapValues(completedPayments)
LedgerAmounts == [i \in 1..Len(LedgerRecords) |-> LedgerRecords[i].amount]
Smaller(a, b) == IF a < b THEN a ELSE b
\* what the answer reports; revenue figures in hundredths of the reported unit
ReportedPayments == resp.items[1]
ReportedRevenue == resp.items[3]
ReportedPackages == resp.items[4]
ReportedRecent == resp.items[5]
\* one line of recentPayments for a ledger record, amount left aside
Listed(line, p) ==
  /\ line.email = p.email
  /\ line.fullName = p.fullName
  /\ line.completedAt = p.completedAt
  /\ line.downloaded = p.downloaded
  /\ line.downloadedAt = p.downloadedAt
\* recentPayments holds the min(10, n) records completed last, latest first
RecentAreTheLatest ==
  LET k == Len(ReportedRecent)
      LineTime(j) == TimeOf(ReportedRecent[j].completedAt)
      RecordTime(i) == TimeOf(LedgerRecords[i].completedAt)
  IN /\ k = Smaller(RecentLimit, Len(LedgerRecords))
     /\ \A a, b \in 1..k : a < b => LineTime(a) >= LineTime(b)
     /\ \A j \in 1..k :
          Cardinality({a \in 1..k : ReportedRecent[a] = ReportedRecent[j]})
            <= Cardinality({i \in 1..Len(LedgerRecords) :
                              Listed(ReportedRecent[j], LedgerRecords[i])})
     /\ k > 0 =>
          Cardinality({i \in 1..Len(LedgerRecords) : RecordTime(i) > LineTime(k)})
            = Cardinality({a \in 1..k : LineTime(a) > LineTime(k)})
PackagesAddUp ==
  /\ SumOf([n \in DOMAIN ReportedPackages |-> ReportedPackages[n].count])
       = ReportedPayments
  /\ SumOf([n \in DOMAIN ReportedPackages |-> ReportedPackages[n].revenue])
       = ReportedRevenue
\* C24 as stated: admin/stats reports the number of records, as total
\* revenue the sum of the records' amounts, per-package counts and revenues
\* that add up to those totals, and as recentPayments the min(10, n) records
\* completed last, latest first.
C24_StatsAsStated ==
  resp.route = "admin-stats" =>
    /\ ReportedPayments = Len(LedgerRecords)
    /\ ReportedRevenue = 100 * SumOf(LedgerAmounts)
    /\ PackagesAddUp
    /\ RecentAreTheLatest
\* C24, amended: admin/stats reports the number of records and as
\* recentPayments the min(10, n) records completed last, latest first; in
\* the variants that sell packages it reports as total revenue the sum of
\* the records' amounts in rupees (the stored amount divided by 100 in the
\* signature variant, the stored amount itself in the status-poll variant)
\* and per-package counts and revenues that add up to the totals; the
\* single-product variant reports no revenue and no package figures.
C24_StatsInReportedUnit ==
  resp.route = "admin-stats" =>
    /\ ReportedPayments = Len(LedgerRecords)
    /\ RecentAreTheLatest
    /\ CASE variant = "razorpay" ->
              ReportedRevenue = SumOf(LedgerAmounts) /\ PackagesAddUp
         [] variant = "cashfree" ->
              ReportedRevenue = 100 * SumOf(LedgerAmounts) /\ PackagesAddUp
         [] variant = "legacy" ->
              "totalRevenue" \notin resp.keys /\ "packageStats" \notin resp.keys
\* statistics of a ledger with more records than the listing shows, of
\* several packages, completed at different times
C24_Witness ==
  /\ resp.route = "admin-stats"
  /\ variant = "razorpay"
  /\ Len(LedgerRecords) > RecentLimit
  /\ Len(ReportedRecent) = RecentLimit
  /\ Cardinality(DOMAIN ReportedPackages) = 3
  /\ TimeOf(ReportedRecent[1].completedAt) > TimeOf(ReportedRecent[RecentLimit].completedAt)
  /\ ReportedRecent[1].completedAt = LedgerRecords[Len(LedgerRecords)].completedAt

\* ---------------------------------------------------------------- C25
\* C25: GET /api/private/payment-count answers 401 with nothing but success
\* and message whenever no key is supplied or no supplied key is the admin
\* secret; it answers with the aggregates only when a supplied key is the
\* secret, and always when the secret is the only key supplied.
C25_AggregatesNeedTheKey ==
  resp.route = "payment-count" =>
    /\ resp.evidence \in {"key-absent", "key-wrong"} =>
         /\ resp.status = 401
         /\ ~resp.success
         /\ resp.keys = {"success", "message"}
         /\ resp.items = <<>>
    /\ resp.status # 401 =>
         resp.evidence \in {"key-right", "key-right-and-wrong"}
    /\ resp.evidence = "key-right" =>
         /\ resp.status = 200
         /\ resp.items[1] = Len(completedPayments)
\* a request with a wrong key was turned away while the ledger holds records
C25_Witness ==
  /\ resp.route = "payment-count"
  /\ resp.evidence = "key-wrong"
  /\ resp.status = 401
  /\ Len(completedPayments) > 0

\* ---------------------------------------------------------------- C26
\* C26: in the persisting variant the file holds, in every state, the
\* tokens of the ledger in ledger order, each with the record the ledger
\* holds for it (instants compared as instants), and a restart yields a
\* ledger with the tokens, item lists and downloaded flags it had before.
SameInstant(a, b) ==
  IF a = Undefined \/ b = Undefined THEN a = b ELSE TimeOf(a) = TimeOf(b)
SameRecord(a, b) ==
  /\ [a EXCEPT !.createdAt = 0, !.completedAt = 0, !.downloadedAt = 0]
       = [b EXCEPT !.createdAt = 0, !.completedAt = 0, !.downloadedAt = 0]
  /\ SameInstant(a.createdAt, b.createdAt)
  /\ SameInstant(a.completedAt, b.completedAt)
  /\ SameInstant(a.downloadedAt, b.downloadedAt)
FileMirrorsLedger ==
  /\ Len(paymentsFile.payments) = Len(completedPayments)
  /\ \A i \in 1..Len(completedPayments) :
       /\ paymentsFile.payments[i][1] = completedPayments[i][1]
       /\ SameRecord(paymentsFile.payments[i][2], completedPayments[i][2])
RestartKeepsLedger ==
  epoch' # epoch =>
    /\ Len(completedPayments') = Len(completedPayments)
    /\ \A i \in 1..Len(completedPayments) :
         /\ completedPayments'[i][1] = completedPayments[i][1]
         /\ completedPayments'[i][2].pdfs = completedPayments[i][2].pdfs
         /\ completedPayments'[i][2].downloaded = completedPayments[i][2].downloaded
CopiedFrom(paymentData, orderData) ==
  /\ paymentData.fullName = orderData.fullName
  /\ paymentData.email = orderData.email
  /\ paymentData.mobile = orderData.mobile
  /\ paymentData.packageName = orderData.packageName
  /\ paymentData.pdfs = orderData.pdfs
  /\ paymentData.amount = orderData.amount
  /\ paymentData.currency = orderData.currency
\* the record was copied from the order its request read
CopiedFromOrderRead(paymentData) ==
  IF variant = "cashfree"
  THEN \E req \in InFlight :
         /\ req.pc = "gateway"
         /\ req.orderId = paymentData.orderId
         /\ CopiedFrom(paymentData, req.orderData)
  ELSE /\ Pending(paymentData.orderId)
       /\ CopiedFrom(paymentData, MapGet(orderStore, paymentData.orderId))
GatewayPaymentIds == PaymentIds \cup {"cf_1", "cf_2"}
C27_RecordCopiesOrder ==
  [][epoch' = epoch =>
       /\ \A tok \in MapKeys(completedPayments') \ MapKeys(completedPayments) :
            LET paymentData == MapGet(completedPayments', tok)
            IN /\ paymentData.orderId \in OrderIds
               /\ paymentData.paymentId \in GatewayPaymentIds
               /\ ~paymentData.downloaded
               /\ paymentData.downloadedAt = Undefined
               /\ TimeOf(paymentData.completedAt) = now
               /\ CopiedFromOrderRead(paymentData)
       /\ \A req \in BagToSet(reqs') \ InFlight :
            req.pc = "gateway" =>
              /\ Pending(req.orderId)
              /\ req.orderData = MapGet(orderStore, req.orderId)
       /\ orderStore' # orderStore =>
            \A tok \in MapKeys(completedPayments) :
              /\ MapHas(completedPayments', tok)
              /\ MapGet(completedPayments', tok) = MapGet(completedPayments, tok)]_vars
\* the record of a Pro pack bought in the status-poll variant outlives its
\* pending order
C27_Witness ==
  /\ variant = "cashfree"
  /\ Len(completedPayments) = 1
  /\ ~Pending(completedPayments[1][2].orderId)
  /\ completedPayments[1][2].packageName = "Pro Viral Pack"
  /\ completedPayments[1][2].pdfs = <<Premium>>
  /\ completedPayments[1][2].amount = 49
  /\ completedPayments[1][2].paymentId = "cf_1"
  /\ ~completedPayments[1][2].downloaded

\* ---------------------------------------------------------------- C28
\* C28: the purchase email is attempted once for every token issued and
\* never twice; while the email of a request is under way, and when a
\* verify-payment response carries a token, that token's record is in the
\* ledger; an email attempt is made only in the step that creates the
\* record of its token, and a verification answered without success
\* attempts none.
EmailOncePerRecord ==
  /\ \A tok \in TokenIds : mailAttempts[tok] = IF tok < nextToken THEN 1 ELSE 0
  /\ \A tok \in MapKeys(completedPayments) : mailAttempts[tok] = 1
  /\ \A req \in InFlight :
       req.pc = "email" => MapHas(completedPayments, req.token)
  /\ (resp.route = "verify-payment" /\ resp.status = 200) =>
       /\ MapHas(completedPayments, resp.token)
       /\ mailAttempts[resp.token] = 1
EmailOnlyWithRecord ==
  /\ \A tok \in TokenIds :
       mailAttempts'[tok] # mailAttempts[tok] =>
         /\ ~MapHas(completedPayments, tok)
         /\ MapHas(completedPayments', tok)
  /\ (resp'.route = "verify-payment" /\ resp'.status # 200) =>
       mailAttempts' = mailAttempts
C28_EmailOncePerRecord == [](EmailOncePerRecord) /\ [][EmailOnlyWithRecord]_vars
\* the email of a verified payment is under way and its record is in the
\* ledger
C28_Witness ==
  \E req \in InFlight :
    /\ req.pc = "email"
    /\ MapHas(completedPayments, req.token)
    /\ MapGet(completedPayments, req.token).orderId = req.orderId
    /\ mailAttempts[req.token] = 1

\* ---- C29
\* an address as the specification means it: one "@", no blank, something
\* before the "@", and after it a "." with something on either side
AtSigns(s) == {k \in 1..Len(s) : s[k] = "@"}
WellFormedEmail(email) ==
  LET s == CharsOf(email)
  IN /\ Cardinality(AtSigns(s)) = 1
     /\ \A k \in 1..Len(s) : s[k] # " "
     /\ LET at == CHOOSE k \in AtSigns(s) : TRUE
        IN /\ at > 1
           /\ \E dot \in (at + 2)..(Len(s) - 1) : s[dot] = "."
FieldMissing(v) == v = Undefined \/ Len(CharsOf(v)) = 0
InvalidForm(form) ==
  \/ FieldMissing(form.fullName)
  \/ FieldMissing(form.email)
  \/ FieldMissing(form.issue)
  \/ ~WellFormedEmail(form.email)
\* the two emails of a form: the admin notice and the customer acknowledgement
TwoEmails(form, mails) ==
  /\ Len(mails) = 2
  /\ mails[1].to = EMAIL_FROM
  /\ mails[2].to = form.email
ContactAnswered(r) == r.route = "contact"
ContactAnswerAsStated ==
  /\ ContactAnswered(resp) =>
       LET form == resp.items[1]
           mails == resp.items[2]
       IN /\ InvalidForm(form) => resp.status = 400 /\ ~resp.success /\ mails = <<>>
          /\ ~InvalidForm(form) => resp.status \in {200, 500} /\ TwoEmails(form, mails)
          /\ resp.success <=>
               /\ resp.status = 200
               /\ ~InvalidForm(form)
               /\ \A k \in 1..Len(mails) : mails[k].state = "sent"
  /\ \A req \in ContactsInFlight :
       /\ ~InvalidForm(req.orderData.form)
       /\ TwoEmails(req.orderData.form, req.orderData.mails)
ContactStep ==
  \/ ContactAnswered(resp')
  \/ epoch' = epoch /\ ContactsInFlight' # ContactsInFlight
ContactTouchesNoStore ==
  /\ ContactStep => orderStore' = orderStore /\ completedPayments' = completedPayments
                     /\ paymentsFile' = paymentsFile
  /\ (ContactAnswered(resp') /\ resp'.status = 400) => reqs' = reqs
  /\ \A after \in ContactsInFlight' \ ContactsInFlight :
       \/ \A k \in 1..2 : after.orderData.mails[k].state = "pending"
       \/ \E before \in ContactsInFlight :
             before.orderData.form = after.orderData.form
\* C29: a contact form with fullName, email or issue missing, or with a
\* malformed email, is answered 400 and no email is handed to the transport;
\* a valid form has exactly two emails handed over, the admin notice and the
\* customer acknowledgement, and is answered with success only when both
\* went out; no step of the contact route changes the order store, the
\* ledger or its file.
C29_ContactAsStated == [](ContactAnswerAsStated) /\ [][ContactTouchesNoStore]_vars
\* a 500 answer after the admin notice went out and the acknowledgement
\* failed, while the ledger holds a record
C29_Witness ==
  /\ ContactAnswered(resp)
  /\ resp.status = 500
  /\ resp.items[2][1].state = "sent"
  /\ resp.items[2][2].state = "failed"
  /\ completedPayments # <<>>

\* ---- C30
Answered == resp.route # "none"
\* C30: every response of every endpoint, success or failure, is a JSON body
\* carrying a `success` boolean and a `message`.
C30_SuccessAndMessageEverywhere ==
  Answered => resp.kind = "json" /\ {"success", "message"} \subseteq resp.keys

\* ---------------------------------------------------------------- C31
PageAnswered == resp'.route = "download-pdf"
RecordMarked(tok) ==
  /\ PageAnswered
  /\ resp'.status = 200
  /\ resp'.about = tok
  /\ MapGet(completedPayments', tok) =
       [MapGet(completedPayments, tok) EXCEPT !.downloaded = TRUE,
                                              !.downloadedAt = Date(now)]
\* C31: while the process lives, a record in the ledger stays in it and is
\* changed by one kind of step only, the download page of its own token,
\* which sets its downloaded flag and its downloadedAt and nothing else;
\* that step leaves every other record and the order store as they were,
\* and adds no record.
C31_OnlyThePageMarks ==
  [][epoch' = epoch =>
       /\ \A tok \in MapKeys(completedPayments) :
            /\ MapHas(completedPayments', tok)
            /\ \/ MapGet(completedPayments', tok) = MapGet(completedPayments, tok)
               \/ RecordMarked(tok)
       /\ PageAnswered =>
            /\ orderStore' = orderStore
            /\ MapKeys(completedPayments') = MapKeys(completedPayments)
            /\ \A tok \in MapKeys(completedPayments) \ {resp'.about} :
                 MapGet(completedPayments', tok) = MapGet(completedPayments, tok)]_vars
\* the page of the second token was served while the first record, never
\* downloaded, and a pending order were there
C31_Witness ==
  /\ resp.route = "download-pdf"
  /\ resp.status = 200
  /\ resp.about = 2
  /\ MapHas(completedPayments, 1)
  /\ ~MapGet(completedPayments, 1).downloaded
  /\ MapGet(completedPayments, 2).downloaded
  /\ epoch = 0

\* ---------------------------------------------------------------- C32
\* the path segment a link carries for item i
IndexSegment(i) == IF i = 1 THEN <<"1">> ELSE <<"2">>
KnownTokenPage ==
  resp.route = "download-pdf" /\ resp.evidence \in {"first-download", "repeat-download"}
PageServed == resp.route = "download-pdf" /\ resp.status = 200
PageListsThePurchase ==
  LET paymentData == MapGet(completedPayments, resp.about)
      items == ItemsOf(paymentData)
  IN /\ resp.kind = "html"
     /\ resp.token = resp.about
     /\ Len(resp.items) = Len(items)
     /\ \A i \in 1..Len(items) :
          /\ resp.items[i] = [index |-> i, pdf |-> items[i]]
          /\ resolveFile(paymentData, IndexSegment(i)) = [status |-> 200, pdf |-> items[i]]
     /\ paymentData.downloaded
     /\ paymentData.downloadedAt = Date(now)
\* C32: a download-pdf request with a known token, the files the route looks
\* for being on disk, is answered with a page; every page served lists the
\* items of the token's record and no others, in their order, item i under
\* the link /api/download-file/<token>/<i>, and leaves the record marked
\* downloaded; each of those links names the token of the record and an
\* index that download-file resolves to the same item.
C32_PageListsThePurchase ==
  /\ (KnownTokenPage /\ PageFilesExist) => PageServed
  /\ PageServed => MapHas(completedPayments, resp.about) /\ PageListsThePurchase
\* the page of a purchase of one item
C32_Witness ==
  /\ PageServed
  /\ Len(resp.items) = 1
  /\ variant # "legacy"
  /\ MapGet(completedPayments, resp.about).pdfs = <<Luxury>>

\* ---------------------------------------------------------------- C33
PurchasedFilesExist(paymentData) ==
  \A i \in 1..Len(ItemsOf(paymentData)) : ItemsOf(paymentData)[i] \in assets
\* C33: a download-pdf request with a known token, every item of whose
\* record is on disk, is answered with the page and leaves the record marked
\* downloaded, whether or not the files outside that purchase are on disk.
C33_PageNeedsOnlyThePurchase ==
  ( /\ KnownTokenPage
    /\ MapHas(completedPayments, resp.about)
    /\ PurchasedFilesExist(MapGet(completedPayments, resp.about)) )
  => /\ PageServed
     /\ MapGet(completedPayments, resp.about).downloaded

\* ---------------------------------------------------------------- C34
\* a verify-payment request found its order in the store in this step
LookedUp(req) ==
  /\ req.pc = "gateway"
  /\ CopiesIn(req, reqs') > CopiesIn(req, reqs)
Expired(orderData) == now - TimeOf(orderData.createdAt) > ExpiryMinutes
\* C34: in the variant with the sweep, no verify-payment request finds an
\* order that is more than 30 minutes old: the lookup of such an order ends
\* in the order-not-found answer, whether the sweep has run since or not, so
\* no record is ever made from it.
C34_NoRedemptionPastExpiry ==
  [][variant = "cashfree" =>
       \A req \in BagToSet(reqs') : LookedUp(req) => ~Expired(req.orderData)]_vars

\* ---------------------------------------------------------------- C35
\* the timer callback ran in this step
SweepRan == epoch' = epoch /\ nextSweep' # nextSweep
OrderAge(orderData) == now - TimeOf(orderData.createdAt)
\* C35: a run of the sweep removes the pending orders created more than 30
\* minutes before it and no other: an order 30 minutes old or younger stays,
\* unchanged; the ledger, its file and the requests in flight are as they
\* were.
C35_SweepRemovesTheExpired ==
  [][SweepRan =>
       /\ \A o \in MapKeys(orderStore) :
            IF OrderAge(MapGet(orderStore, o)) > ExpiryMinutes
            THEN ~MapHas(orderStore', o)
            ELSE MapHas(orderStore', o) /\ MapGet(orderStore', o) = MapGet(orderStore, o)
       /\ MapKeys(orderStore') \subseteq MapKeys(orderStore)
       /\ Len(orderStore') = Cardinality(MapKeys(orderStore'))
       /\ completedPayments' = completedPayments
       /\ paymentsFile' = paymentsFile
       /\ reqs' = reqs
       /\ mailAttempts' = mailAttempts]_vars
\* the sweep of minute 60 has removed the order that the sweep of minute 30,
\* finding it exactly 30 minutes old, had left in the store; the record of
\* the earlier purchase is still there
C35_Witness ==
  /\ variant = "cashfree"
  /\ epoch = 0
  /\ nextSweep = 3 * SweepIntervalMinutes
  /\ nextOrder = 3
  /\ nextToken = 2
  /\ orderStore = <<>>
  /\ MapHas(completedPayments, 1)

\* ---------------------------------------------------------------- C36
AwaitingGateway(o) == \E req \in InFlight : req.pc = "gateway" /\ req.orderId = o
AwaitingEmail(tok) == \E req \in InFlight : req.pc = "email" /\ req.token = tok
VerifyAnswered(r) == r.route = "verify-payment"
\* a request leaves with a response, a request that arrives and is suspended
\* has none yet, a request that moves on from the gateway call to the email
\* has none yet either; the response of a request that made a record is sent
\* with the order out of the store
OneResponseEach ==
  LET before == BagCardinality(reqs)
      after == BagCardinality(reqs')
  IN /\ after \in {before - 1, before, before + 1}
     /\ after = before - 1 => VerifyAnswered(resp')
     /\ after = before + 1 => ~VerifyAnswered(resp')
     /\ (after = before /\ reqs' # reqs) =>
          /\ ~VerifyAnswered(resp')
          /\ \E req \in InFlight, next \in BagToSet(reqs') :
               /\ req.pc = "gateway"
               /\ next.pc = "email"
               /\ next.orderId = req.orderId
               /\ reqs' = (reqs (-) SetToBag({req})) (+) SetToBag({next})
     /\ (VerifyAnswered(resp') /\ resp'.token # 0) =>
          /\ MapHas(completedPayments', resp'.token)
          /\ ~MapHas(orderStore', resp'.about)
\* C36: with every gateway call and every email send settling, a
\* verify-payment request waiting for the gateway goes on to its response or
\* to its email, a request waiting for its email goes on to its response,
\* which is sent after the order has left the store; no request is answered
\* twice or leaves without an answer.
C36_EveryVerifyIsAnswered ==
  /\ [][OneResponseEach]_vars
  /\ \A o \in OrderIds :
       AwaitingGateway(o) ~>
         \/ VerifyAnswered(resp) /\ resp.about = o
         \/ \E req \in InFlight : req.pc = "email" /\ req.orderId = o
  /\ \A tok \in TokenIds :
       AwaitingEmail(tok) ~>
         /\ VerifyAnswered(resp)
         /\ resp.token = tok
         /\ ~MapHas(orderStore, resp.about)
\* a request is answered 200 after its email failed, its order gone from
\* the store, while another request is still waiting
C36_Witness ==
  /\ VerifyAnswered(resp)
  /\ resp.status = 200
  /\ resp.mail = "failed"
  /\ ~MapHas(orderStore, resp.about)
  /\ reqs # EmptyBag

\* ---------------------------------------------------------------- C37
Verified == VerifyAnswered(resp) /\ resp.status = 200
\* the token of the response is the key of the record made for its order
TokenOfTheRecord ==
  /\ MapHas(completedPayments, resp.token)
  /\ MapGet(completedPayments, resp.token).orderId = resp.about
  /\ "downloadToken" \in resp.keys
\* one direct link per item of the record, numbered from 1 in item order,
\* each resolved by download-file to the item it stands for
LinksOfTheRecord ==
  LET paymentData == MapGet(completedPayments, resp.token)
      items == ItemsOf(paymentData)
  IN /\ "directDownloadUrls" \in resp.keys
     /\ Len(resp.items) = Len(items)
     /\ \A i \in 1..Len(items) :
          /\ resp.items[i] = [index |-> i, pdf |-> items[i]]
          /\ resolveFile(paymentData, IndexSegment(i)) = [status |-> 200, pdf |-> items[i]]
StatsRevenue == StatsResp(MapValues(completedPayments)).items[3]
CountRevenue == PaymentCountResp(MapValues(completedPayments)).items[2]
\* C38: in a variant that has both routes, the total revenue in an answer of
\* /api/private/payment-count is the total revenue /api/admin/stats reports
\* for the same ledger, and the other way round.
C38_OneRevenueFigure ==
  /\ (resp.route = "payment-count" /\ resp.status = 200) => resp.items[2] = StatsRevenue
  /\ (resp.route = "admin-stats" /\ variant # "legacy") => resp.items[3] = CountRevenue

\* ---------------------------------------------------------------- C39
VerifyInProgress == \E req \in InFlight : req.pc \in {"gateway", "email"}
\* C39: in the status-poll variant isProcessingPayment is true only while a
\* verify-payment request is in progress: with no such request in progress
\* the flag is false, whichever way the last request left the handler.
C39_FlagOnlyWhileVerifying ==
  (variant = "cashfree" /\ isProcessingPayment) => VerifyInProgress
====
